---- MODULE Spec2Model ----
(***************************************************************************)
(* A model of the plan-execution loop of the browser agent:                *)
(*   GeminiAgent.plan_actions      (src/src/agent/llm/gemini_client.py)     *)
(*   GeminiAgent._extract_json_from_text (same file), on token texts       *)
(*   CommandParser.parse_plan      (.../browser/interaction/parser.py)      *)
(*   CommandExecutor.execute_action (.../browser/interaction/executor.py)   *)
(*   Browser.interact              (.../browser/browser.py)                 *)
(*                                                                         *)
(* A Python dict is a TLA+ record whose DOMAIN is the set of its keys.      *)
(* A Python str is a sequence of tokens (<<"ENV:", "USER">> is             *)
(* "ENV:USER"), so that prefix tests and splits are computed.              *)
(* A call that may raise returns a completion: Return(v, calls) or         *)
(* Raise(e, calls); try/except is a test on the completion.                *)
(* The page driver is external: the outcome of each driver call is drawn    *)
(* from the outcomes Playwright can produce (a value, None, TimeoutError,   *)
(* another Error).                                                          *)
(***************************************************************************)
EXTENDS Integers, Sequences, FiniteSets, TLC

VARIABLES
    pc,        \* position of the running call: see Init, InitLoop, InitExec
    agent,     \* which planner Browser was constructed with
    environ,   \* os.environ, as far as the plans name it
    plan,      \* what agent.plan_actions returned (browser.py:115)
    actions,   \* the list `actions` of interact (browser.py:125)
    cursor,    \* index of the next element of `actions` the for loop takes
    log,       \* what interact did, in order: banner passes, executor calls, delays
    calls,     \* the page-driver calls of the most recent execute_action, in order
    executed,  \* the result records execute_action returned, in order
    faults,    \* the places where an exception was raised during the call
    result,    \* the value the call returned (NoResult while it runs)
    raised,    \* TRUE iff an exception left the call
    response,  \* the text the language model answered with (plan_actions)
    args,      \* further arguments of the call: the page content handed to
               \* plan_actions, the description handed to the resolver
    earlier,   \* the invocations of interact that returned before this one
    setup,     \* position of the task running _setup_popup_handling
    page       \* self.page: its listeners and routes, and what the tasks of
               \* the Browser do on it

vars == <<pc, agent, environ, plan, actions, cursor, log, calls, executed,
          faults, result, raised, response, args, earlier, setup, page>>

----------------------------------------------------------------------------
(* Bounds of the model *)

MaxSteps == 2      \* longest plan / action list
MaxSel == 2        \* longest candidate-selector list
MaxRuns == 2       \* invocations of interact on the same Browser

(* Program constants *)

ErrorStatus == 400          \* executor.py:40  response.status < 400
NavTimeout == 60000         \* executor.py:36  page.goto(timeout=60000)
SelectorTimeout == 10000    \* executor.py:51, 69, 117  wait_for_selector(timeout=10000)
NumCookieSelectors == 10    \* browser.py:86-98  cookie_button_selectors

----------------------------------------------------------------------------
(* Python values *)

None == [type |-> "NoneType"]
NoResult == [type |-> "running"]
NoResponse == [type |-> "no response"]
NoArgs == [type |-> "no arguments"]

(* self.page as the tasks of the Browser see it: the number of listeners
   registered for "popup" and for "dialog", the number of routes installed,
   the number of the last action execute_action was called for, the page
   operations other tasks issued while an action was executing, and the last
   operation a handler issued *)
NewPage ==
    [popup |-> 0, dialog |-> 0, route |-> 0, begun |-> 0, busy |-> {},
     reaction |-> "none"]
InstalledPage == [NewPage EXCEPT !.popup = 1, !.dialog = 1, !.route = 1]

Return(v, cs) == [raised |-> FALSE, value |-> v, calls |-> cs]
Raise(e, cs) == [raised |-> TRUE, exc |-> e, calls |-> cs]

KeyError(k) == [type |-> "KeyError", msg |-> k]
ValueError == [type |-> "ValueError", msg |-> "invalid literal for int()"]
IndexError == [type |-> "IndexError", msg |-> "list index out of range"]
PlannerFault == [type |-> "Exception", msg |-> "planner failed"]
PlaywrightTimeout == [type |-> "TimeoutError", msg |-> "Timeout exceeded"]
PlaywrightError == [type |-> "Error", msg |-> "driver fault"]

DriverExc(out) == IF out = "timeout" THEN PlaywrightTimeout ELSE PlaywrightError

Has(d, k) == k \in DOMAIN d

(* candidate selectors: "#s1", "#s2", ... *)
AllSelectors == <<"#s1", "#s2", "#s3", "#s4">>
Selectors(n) == SubSeq(AllSelectors, 1, n)

(* int(str): the numerals the plans use *)
IsNumeral(v) == v \in {<<"2">>, <<"3000">>}
IntOf(v) == IF v = <<"2">> THEN 2 ELSE 3000

----------------------------------------------------------------------------
(* CommandExecutor._resolve_env_value, executor.py:15-20 *)

RECURSIVE UpToSep(_, _)
UpToSep(s, k) ==
    IF k > Len(s) \/ s[k] = "ENV:" THEN <<>> ELSE <<s[k]>> \o UpToSep(s, k + 1)

(* value.split("ENV:")[1] of a value that starts with "ENV:" *)
SplitEnv1(value) == UpToSep(value, 2)

(* os.getenv(name, "") *)
getenv(env, name) ==
    IF Len(name) = 1 /\ name[1] \in DOMAIN env THEN env[name[1]] ELSE <<>>

startswith_ENV(value) == Len(value) > 0 /\ value[1] = "ENV:"

resolve_env_value(env, value) ==
    IF startswith_ENV(value) THEN getenv(env, SplitEnv1(value)) ELSE value

----------------------------------------------------------------------------
(* Result records of execute_action, executor.py:22-150 *)

Success == [success |-> TRUE]

(* UnknownAction reported with the error kind of an execution failure *)
unknown_action_as_action_error(action_type) ==
    [success |-> FALSE,
     message |-> <<"Unknown action type: ", action_type>>,
     error_type |-> "ActionError"]

(* executor.py:138-142 *)
UnknownAction(action_type) ==
    [success |-> FALSE,
     message |-> <<"Unknown action type: ", action_type>>,
     error_type |-> "UnknownAction"]

ActionError(e) ==
    [success |-> FALSE,
     message |-> <<"Action failed: ", e.msg>>,
     error_type |-> "ActionError"]

Failure(msg) == [success |-> FALSE, message |-> <<msg>>]

(* one page-driver call: its operation, its string argument, its numeric
   argument (a timeout or a delay in ms, 0 when it has none), its outcome *)
CallN(op, arg, n, out) == [op |-> op, arg |-> arg, n |-> n, out |-> out]
Call(op, arg, out) == CallN(op, arg, 0, out)

----------------------------------------------------------------------------
(* The page driver's answers to one execute_action.                        *)
(*   nav   : page.goto -> a response with a status, None, or an exception  *)
(*   load  : page.wait_for_load_state("domcontentloaded")                  *)
(*   key   : page.keyboard.press, then (submit) wait_for_load_state        *)
(*   cand  : per candidate selector, how far the attempt on it gets        *)
(*           "timeout"/"fault": wait_for_selector raises; "none": it       *)
(*           returns no element; "act_fault": element.click/fill raises;   *)
(*           "settle_fault": the settle wait after a submit click raises;  *)
(*           "ok": every driver call of the attempt returns                *)
(*   sleep : page.wait_for_timeout                                         *)

CallOutcomes == {"ok", "timeout", "fault"}
CandOutcomes == {"ok", "none", "timeout", "fault", "act_fault", "settle_fault"}
KeyOutcomes == {"ok", "press_fault", "settle_fault"}
Statuses == {200, 399, 400, 404}
NavOutcomes ==
    {[kind |-> "response", status |-> s] : s \in Statuses}
        \cup {[kind |-> k, status |-> 0] : k \in {"none", "timeout", "fault"}}

DefaultOracle ==
    [nav |-> [kind |-> "response", status |-> 200], load |-> "ok", key |-> "ok",
     cand |-> [k \in 1..MaxSel |-> "ok"], sleep |-> "ok",
     vis |-> [k \in 1..MaxSel |-> 0]]

(* answers for the first n candidates; the others are never asked *)
CandOracles(n) ==
    {c \in [1..MaxSel -> CandOutcomes] : \A k \in 1..MaxSel : k > n => c[k] = "ok"}

(* When each selector of a wait action becomes visible, counted in windows
   of the action's timeout from the start of the action: 0 is within the
   first `value` milliseconds, j within the (j+1)-th, MaxSel not within any
   window the action can wait through.  A visible element stays visible. *)
Visibilities(n) ==
    {v \in [1..MaxSel -> 0..MaxSel] : \A k \in 1..MaxSel : k > n => v[k] = 0}

(* whether the driver faults on the k-th wait of a wait action *)
WaitFaults(n) ==
    {c \in [1..MaxSel -> {"ok", "fault"}] : \A k \in 1..MaxSel : k > n => c[k] = "ok"}

NumCandidates(action) ==
    IF Has(action, "selectors") THEN Len(action.selectors) ELSE 0

(* the answers that an action of this kind can observe *)
Oracles(action) ==
    LET t == IF Has(action, "action") THEN action.action ELSE ""
        n == NumCandidates(action)
    IN
    IF t = "navigation" THEN
        {[DefaultOracle EXCEPT !.nav = v, !.load = l] :
            v \in NavOutcomes, l \in CallOutcomes}
    ELSE IF t \in {"click", "type"} THEN
        {[DefaultOracle EXCEPT !.cand = c] : c \in CandOracles(n)}
    ELSE IF t = "wait" THEN
        IF n > 0
        THEN {[DefaultOracle EXCEPT !.cand = c, !.vis = v] :
                c \in WaitFaults(n), v \in Visibilities(n)}
        ELSE {[DefaultOracle EXCEPT !.sleep = s] : s \in CallOutcomes}
    ELSE IF t = "submit" THEN
        {[DefaultOracle EXCEPT !.key = k, !.cand = c] :
            k \in KeyOutcomes, c \in CandOracles(n)}
    ELSE IF t = "press" THEN
        {[DefaultOracle EXCEPT !.key = k] : k \in {"ok", "press_fault"}}
    ELSE {DefaultOracle}

----------------------------------------------------------------------------
(* CommandExecutor.execute_action, executor.py:22-150 *)

(* page.goto(action["value"], timeout=60000), executor.py:33-37, and what it
   gave: a response with a status ("ok"), None ("none") or an exception *)
GotoCall(url, nav) ==
    [op |-> "goto", arg |-> url, n |-> NavTimeout,
     out |-> IF nav.kind = "response" THEN "ok" ELSE nav.kind,
     status |-> nav.status]

(* exec_navigation with `bool(response)` for the success: the status of the
   response is not looked at *)
exec_navigation_ignores_status(action, o) ==
    IF ~Has(action, "value") THEN Raise(KeyError("'value'"), <<>>)
    ELSE
        LET goto == GotoCall(action.value, o.nav)
            load == Call("wait_for_load_state", <<"domcontentloaded">>, o.load)
        IN  IF goto.out \in {"timeout", "fault"} THEN Raise(DriverExc(goto.out), <<goto>>)
            ELSE IF o.load # "ok" THEN Raise(DriverExc(o.load), <<goto, load>>)
            ELSE Return([success |-> goto.out = "ok"], <<goto, load>>)

(* executor.py:31-42 *)
exec_navigation(action, o) ==
    IF ~Has(action, "value") THEN Raise(KeyError("'value'"), <<>>)
    ELSE
        LET goto == GotoCall(action.value, o.nav)
            load == Call("wait_for_load_state", <<"domcontentloaded">>, o.load)
        IN  IF goto.out \in {"timeout", "fault"} THEN Raise(DriverExc(goto.out), <<goto>>)
            ELSE IF o.load # "ok" THEN Raise(DriverExc(o.load), <<goto, load>>)
            ELSE Return([success |-> goto.out = "ok" /\ goto.status < ErrorStatus],
                        <<goto, load>>)

(* element.click(), or element.fill(action["value"]) with the text it is
   given, on the element found under sel: executor.py:55, 73, 119 *)
ActCall(act, sel, action, out) ==
    IF act = "fill"
    THEN [op |-> "fill", arg |-> <<sel>>, n |-> 0, out |-> out, text |-> action.value]
    ELSE Call(act, <<sel>>, out)

(* candidate_loop with the `return` after the click/fill missing: the loop
   goes on to the remaining candidates after one has succeeded *)
RECURSIVE candidate_loop_no_return(_, _, _, _, _, _)
candidate_loop_no_return(action, o, act, settle, k, cs) ==
    IF k > Len(action.selectors) THEN [hit |-> FALSE, calls |-> cs]
    ELSE
        LET sel == action.selectors[k]
            out == o.cand[k]
            w == CallN("wait_for_selector", <<sel>>, SelectorTimeout,
                      IF out \in {"timeout", "fault", "none"} THEN out ELSE "ok")
            a == ActCall(act, sel, action, IF out = "act_fault" THEN "fault" ELSE "ok")
        IN  IF w.out # "ok" \/ (act = "fill" /\ ~Has(action, "value")) THEN
                candidate_loop_no_return(action, o, act, settle, k + 1, cs \o <<w>>)
            ELSE IF a.out # "ok" THEN
                candidate_loop_no_return(action, o, act, settle, k + 1, cs \o <<w, a>>)
            ELSE
                [hit |-> TRUE,
                 calls |-> candidate_loop_no_return(action, o, act, settle, k + 1,
                                                    cs \o <<w, a>>).calls]

(* a retry wrapped around the pass: when no candidate returned success, the
   candidates are gone through a second time *)
candidate_loop_twice(action, o, act, settle, k, cs) ==
    LET r == candidate_loop_no_return(action, o, act, settle, k, cs) IN
    IF r.hit THEN r
    ELSE [hit |-> FALSE,
          calls |-> candidate_loop_no_return(action, o, act, settle, k, r.calls).calls]

(* One pass of `for selector in action["selectors"]: try ... except Exception:
   continue` (executor.py:45-59, 63-77, 111-124), from candidate k on.
   act is "click" or "fill"; settle says whether a settle wait follows the
   click. Gives whether a candidate returned success, and the driver calls. *)
RECURSIVE candidate_loop(_, _, _, _, _, _)
candidate_loop(action, o, act, settle, k, cs) ==
    IF k > Len(action.selectors) THEN [hit |-> FALSE, calls |-> cs]
    ELSE
        LET sel == action.selectors[k]
            out == o.cand[k]
            w == CallN("wait_for_selector", <<sel>>, SelectorTimeout,
                      IF out \in {"timeout", "fault", "none"} THEN out ELSE "ok")
            a == ActCall(act, sel, action, IF out = "act_fault" THEN "fault" ELSE "ok")
            s == Call("wait_for_load_state", <<"networkidle">>,
                      IF out = "settle_fault" THEN "fault" ELSE "ok")
        IN  IF w.out # "ok" THEN
                \* the wait raised, or `if element:` is false
                candidate_loop(action, o, act, settle, k + 1, cs \o <<w>>)
            ELSE IF act = "fill" /\ ~Has(action, "value") THEN
                \* action["value"] raises KeyError inside the try
                candidate_loop(action, o, act, settle, k + 1, cs \o <<w>>)
            ELSE IF a.out # "ok" THEN
                candidate_loop(action, o, act, settle, k + 1, cs \o <<w, a>>)
            ELSE IF ~settle THEN [hit |-> TRUE, calls |-> cs \o <<w, a>>]
            ELSE IF s.out # "ok" THEN
                candidate_loop(action, o, act, settle, k + 1, cs \o <<w, a, s>>)
            ELSE [hit |-> TRUE, calls |-> cs \o <<w, a, s>>]

(* executor.py:44-60 *)
exec_click(action, o) ==
    IF ~Has(action, "selectors") THEN Raise(KeyError("'selectors'"), <<>>)
    ELSE
        LET r == candidate_loop(action, o, "click", FALSE, 1, <<>>) IN
        IF r.hit THEN Return(Success, r.calls)
        ELSE Return(Failure("Click action failed for all selectors"), r.calls)

(* the loop with `except Exception: continue` in place of `except
   TimeoutError: continue`: every fault moves on to the next selector *)
RECURSIVE wait_loop_any_fault_continues(_, _, _, _)
wait_loop_any_fault_continues(action, o, k, cs) ==
    IF k > Len(action.selectors) THEN
        Return(Failure("Wait condition not met"), cs)
    ELSE IF ~Has(action, "value") \/ ~IsNumeral(action.value) THEN
        wait_loop_any_fault_continues(action, o, k + 1, cs)
    ELSE
        LET out == IF o.cand[k] = "fault" THEN "fault"
                   ELSE IF o.vis[k] <= k - 1 THEN "ok"
                   ELSE "timeout"
            w == CallN("wait_for_selector", <<action.selectors[k]>>,
                       IntOf(action.value), out)
        IN  IF out = "ok" THEN Return(Success, cs \o <<w>>)
            ELSE wait_loop_any_fault_continues(action, o, k + 1, cs \o <<w>>)

(* executor.py:62-78 *)
exec_type(action, o) ==
    IF ~Has(action, "selectors") THEN Raise(KeyError("'selectors'"), <<>>)
    ELSE
        LET r == candidate_loop(action, o, "fill", FALSE, 1, <<>>) IN
        IF r.hit THEN Return(Success, r.calls)
        ELSE Return(Failure("Type action failed for all selectors"), r.calls)
(* executor.py:80-100.  `if action.get("selectors")` is true of a non-empty
   list; int(action["value"]) is evaluated inside the try of each candidate,
   whose except clause catches TimeoutError only. *)
RECURSIVE wait_loop(_, _, _, _)
wait_loop(action, o, k, cs) ==
    IF k > Len(action.selectors) THEN
        Return(Failure("Wait condition not met"), cs)
    ELSE IF ~Has(action, "value") THEN Raise(KeyError("'value'"), cs)
    ELSE IF ~IsNumeral(action.value) THEN Raise(ValueError, cs)
    ELSE
        \* the k-th wait starts after k - 1 timeouts and lasts one window
        LET out == IF o.cand[k] = "fault" THEN "fault"
                   ELSE IF o.vis[k] <= k - 1 THEN "ok"
                   ELSE "timeout"
            w == CallN("wait_for_selector", <<action.selectors[k]>>,
                       IntOf(action.value), out)
        IN  IF out = "ok" THEN Return(Success, cs \o <<w>>)
            ELSE IF out = "timeout" THEN wait_loop(action, o, k + 1, cs \o <<w>>)
            ELSE Raise(PlaywrightError, cs \o <<w>>)

exec_wait(action, o) ==
    IF Has(action, "selectors") /\ action.selectors # <<>> THEN
        wait_loop(action, o, 1, <<>>)
    ELSE IF ~Has(action, "value") THEN Raise(KeyError("'value'"), <<>>)
    ELSE IF ~IsNumeral(action.value) THEN Raise(ValueError, <<>>)
    ELSE
        LET w == CallN("wait_for_timeout", <<>>, IntOf(action.value) * 1000, o.sleep)
        IN  IF o.sleep # "ok" THEN Raise(DriverExc(o.sleep), <<w>>)
            ELSE Return(Success, <<w>>)

(* exec_submit with its two strategies swapped: the candidates first, the
   Enter key after them *)
exec_submit_selectors_first(action, o) ==
    LET r == IF Has(action, "selectors")
             THEN candidate_loop(action, o, "click", TRUE, 1, <<>>)
             ELSE [hit |-> FALSE, calls |-> <<>>]
        press == Call("press", <<"Enter">>,
                      IF o.key = "press_fault" THEN "fault" ELSE "ok")
        settle == Call("wait_for_load_state", <<"networkidle">>,
                       IF o.key = "settle_fault" THEN "fault" ELSE "ok")
    IN  IF r.hit THEN Return(Success, r.calls)
        ELSE IF o.key = "ok" THEN Return(Success, r.calls \o <<press, settle>>)
        ELSE Return(Failure("Submit action failed"), r.calls \o <<press>>)

(* executor.py:102-125 *)
exec_submit(action, o) ==
    LET press == Call("press", <<"Enter">>,
                      IF o.key = "press_fault" THEN "fault" ELSE "ok")
        settle == Call("wait_for_load_state", <<"networkidle">>,
                       IF o.key = "settle_fault" THEN "fault" ELSE "ok")
        first == IF o.key = "press_fault" THEN <<press>> ELSE <<press, settle>>
    IN  IF o.key = "ok" THEN Return(Success, first)
        ELSE IF ~Has(action, "selectors") THEN
            \* raised inside the except block: it reaches the outer handler
            Raise(KeyError("'selectors'"), first)
        ELSE
            LET r == candidate_loop(action, o, "click", TRUE, 1, first) IN
            IF r.hit THEN Return(Success, r.calls)
            ELSE Return(Failure("Submit action failed"), r.calls)

(* exec_press without its try/except: the key is pressed and success is
   returned whatever the driver call did *)
exec_press_always_succeeds(action, o) ==
    IF ~Has(action, "value") THEN Return(Success, <<>>)
    ELSE Return(Success,
                <<Call("press", action.value,
                       IF o.key = "press_fault" THEN "fault" ELSE "ok")>>)

(* executor.py:127-136 *)
exec_press(action, o) ==
    IF ~Has(action, "value") THEN
        Return([success |-> FALSE,
                message |-> <<"Press action failed: ", KeyError("'value'").msg>>],
               <<>>)
    ELSE
        LET p == Call("press", action.value,
                      IF o.key = "press_fault" THEN "fault" ELSE "ok")
        IN  IF p.out # "ok" THEN
                Return([success |-> FALSE,
                        message |-> <<"Press action failed: ", PlaywrightError.msg>>],
                       <<p>>)
            ELSE Return(Success, <<p>>)

(* executor.py:27-29: action["value"] is overwritten in place *)
resolved(env, action) ==
    IF Has(action, "value")
    THEN [action EXCEPT !.value = resolve_env_value(env, action.value)]
    ELSE action

(* executor.py:24-142: the body of the try *)
execute_action_body(env, action, o) ==
    IF ~Has(action, "action") THEN Raise(KeyError("'action'"), <<>>)
    ELSE
        LET a == resolved(env, action)
            t == a.action
        IN  IF t = "navigation" THEN exec_navigation(a, o)
            ELSE IF t = "click" THEN exec_click(a, o)
            ELSE IF t = "type" THEN exec_type(a, o)
            ELSE IF t = "wait" THEN exec_wait(a, o)
            ELSE IF t = "submit" THEN exec_submit(a, o)
            ELSE IF t = "press" THEN exec_press(a, o)
            ELSE Return(UnknownAction(t), <<>>)

(* execute_action_except catching the driver's TimeoutError only *)
execute_action_except_timeout_only(c) ==
    IF c.raised /\ c.exc.type = "TimeoutError"
    THEN Return(ActionError(c.exc), c.calls) ELSE c

(* executor.py:144-150: except Exception *)
execute_action_except(c) ==
    IF c.raised THEN Return(ActionError(c.exc), c.calls) ELSE c

(* CommandExecutor.execute_action: the completion, and the action record as
   the call leaves it *)
execute_action(env, action, o) ==
    [completion |-> execute_action_except(execute_action_body(env, action, o)),
     action |-> IF Has(action, "action") THEN resolved(env, action) ELSE action]
----------------------------------------------------------------------------
(* CommandParser.parse_plan, parser.py:100-141 *)

(* the dict {}: TLC cannot compare the empty function with a record, so {}
   is the record whose only field is a marker that no code reads *)
EmptyDict == [empty_dict |-> TRUE]

(* parse_step with the click branch of the input branch: one action, for
   the first selector *)
parse_step_first_selector(step) ==
    IF ~Has(step, "action_type") THEN Raise(KeyError("'action_type'"), <<>>)
    ELSE IF ~Has(step, "details") THEN Raise(KeyError("'details'"), <<>>)
    ELSE IF step.action_type = "click" /\ Has(step.details, "selectors")
            /\ step.details.selectors # <<>>
    THEN Return(<<[action |-> "click", selector |-> step.details.selectors[1]]>>, <<>>)
    ELSE IF step.action_type = "navigation" /\ Has(step.details, "url")
    THEN Return(<<[action |-> "goto", url |-> step.details.url]>>, <<>>)
    ELSE Return(<<>>, <<>>)

(* parser.py:105-139: the actions one step appends, or the exception *)
parse_step(step) ==
    IF ~Has(step, "action_type") THEN Raise(KeyError("'action_type'"), <<>>)
    ELSE IF ~Has(step, "details") THEN Raise(KeyError("'details'"), <<>>)
    ELSE
        LET action_type == step.action_type
            details == step.details
        IN  IF action_type = "navigation" THEN
                IF ~Has(details, "url") THEN Raise(KeyError("'url'"), <<>>)
                ELSE Return(<<[action |-> "goto", url |-> details.url]>>, <<>>)
            ELSE IF action_type = "click" THEN
                IF ~Has(details, "selectors") THEN Raise(KeyError("'selectors'"), <<>>)
                ELSE Return([k \in 1..Len(details.selectors) |->
                                [action |-> "click", selector |-> details.selectors[k]]],
                            <<>>)
            ELSE IF action_type = "input" THEN
                IF ~Has(details, "selectors") THEN Raise(KeyError("'selectors'"), <<>>)
                ELSE IF details.selectors = <<>> THEN Raise(IndexError, <<>>)
                ELSE IF ~Has(details, "text") THEN Raise(KeyError("'text'"), <<>>)
                ELSE Return(<<[action |-> "fill", selector |-> details.selectors[1],
                               text |-> details.text]>>, <<>>)
            ELSE IF action_type = "wait" THEN
                Return(<<[action |-> "wait",
                          seconds |-> IF Has(details, "seconds")
                                      THEN details.seconds ELSE 1]>>, <<>>)
            ELSE IF action_type = "verify" THEN
                IF ~Has(details, "selectors") THEN Raise(KeyError("'selectors'"), <<>>)
                ELSE Return(<<[action |-> "verify", selectors |-> details.selectors]>>,
                            <<>>)
            ELSE Return(<<>>, <<>>)

(* parser.py:104: for step in plan.get("steps", []) *)
RECURSIVE parse_steps(_, _, _)
parse_steps(steps, k, browser_actions) ==
    IF k > Len(steps) THEN Return(browser_actions, <<>>)
    ELSE
        LET c == parse_step(steps[k]) IN
        IF c.raised THEN c
        ELSE parse_steps(steps, k + 1, browser_actions \o c.value)

parse_plan(p) ==
    parse_steps(IF Has(p, "steps") THEN p.steps ELSE <<>>, 1, <<>>)

----------------------------------------------------------------------------
(* GeminiAgent.plan_actions, gemini_client.py:178-202.  gen is the outcome of
   the model call and of _extract_json_from_text on its text: an exception,
   a JSON object (a dict) or a JSON array (a list). *)

plan_actions(gen) ==
    IF gen.kind = "raise" THEN None                 \* gemini_client.py:199-202
    ELSE IF gen.kind = "list" THEN None             \* plan.get: AttributeError
    ELSE IF ~Has(gen.value, "steps") \/ gen.value.steps = <<>> THEN None
    ELSE gen.value

----------------------------------------------------------------------------
(* Browser, browser.py *)

HumanDelayMin == 100     \* browser.py:37
HumanDelayMax == 300     \* browser.py:37
Delays == {HumanDelayMin, HumanDelayMax}

(* browser.py:84-105.  Per cookie selector: "fault" (page.click raises),
   "ok" (clicked, delay done), "delay_fault" (clicked, the delay raises);
   the bare except swallows either exception. Gives the number of selectors
   tried and clicked. *)
RECURSIVE handle_cookie_banners_no_except(_, _, _)
handle_cookie_banners_no_except(bo, k, clicked) ==
    IF k > NumCookieSelectors THEN
        [raised |-> FALSE, tried |-> k - 1, clicked |-> clicked]
    ELSE IF bo[k] = "fault" THEN
        [raised |-> TRUE, tried |-> k, clicked |-> clicked]
    ELSE IF bo[k] = "delay_fault" THEN
        [raised |-> TRUE, tried |-> k, clicked |-> clicked + 1]
    ELSE handle_cookie_banners_no_except(bo, k + 1, clicked + 1)

RECURSIVE handle_cookie_banners(_, _, _)
handle_cookie_banners(bo, k, clicked) ==
    IF k > NumCookieSelectors THEN
        [raised |-> FALSE, tried |-> k - 1, clicked |-> clicked]
    ELSE handle_cookie_banners(bo, k + 1,
                               IF bo[k] = "fault" THEN clicked ELSE clicked + 1)

(* the driver's answers to one banner pass: no banner, one banner (under the
   first or the last selector, its delay failing or not), every selector *)
BannerOracles ==
    {[k \in 1..NumCookieSelectors |-> "fault"],
     [k \in 1..NumCookieSelectors |-> "ok"]}
        \cup {[k \in 1..NumCookieSelectors |-> IF k = j THEN out ELSE "fault"] :
                j \in {1, NumCookieSelectors}, out \in {"ok", "delay_fault"}}

PlanningError ==
    [success |-> FALSE,
     message |-> <<"Failed to generate action plan">>,
     error_type |-> "PlanningError"]

CommandExecuted ==
    [success |-> TRUE, message |-> <<"Command executed successfully">>]

UnexpectedError(e) ==
    [success |-> FALSE,
     message |-> <<"Unexpected error: ", e.msg>>,
     error_type |-> "UnexpectedError"]

(* plan_unusable as `if not plan`, without the test of the steps *)
plan_unusable_none_only(p) == p = None \/ p = EmptyDict

(* browser.py:117: if not plan or not plan.get("steps") *)
plan_unusable(p) ==
    \/ p = None
    \/ p = EmptyDict
    \/ ~Has(p, "steps")
    \/ p.steps = <<>>

(* after_action without the `return result` of a failed action: the loop
   logs the failure and goes on *)
after_action_no_return(r, d) ==
    IF d # "ok" THEN [next |-> "raise", exc |-> DriverExc(d)]
    ELSE [next |-> "continue"]

(* browser.py:136-141: what the loop does with the result of one action and
   the outcome d of the delay: return it, raise, or go on to the next *)
after_action(r, d) ==
    IF ~r.success THEN
        IF ~Has(r, "message") THEN
            [next |-> "raise", exc |-> KeyError("'message'")]     \* line 137
        ELSE [next |-> "return", value |-> r]                       \* line 138
    ELSE IF d # "ok" THEN [next |-> "raise", exc |-> DriverExc(d)]  \* line 141
    ELSE [next |-> "continue"]

(* interact_except catching the page driver's errors only *)
interact_except_driver_only(c) ==
    IF c.raised /\ c.exc.type \in {"Error", "TimeoutError"}
    THEN Return(UnexpectedError(c.exc), <<>>) ELSE c

(* browser.py:148-154: except Exception *)
interact_except(c) ==
    IF c.raised THEN Return(UnexpectedError(c.exc), <<>>) ELSE c
----------------------------------------------------------------------------
(* Inputs *)

SeqsUpTo(S, n) == UNION {[1..m -> S] : m \in 0..n}

Environs == {EmptyDict, [USER |-> <<"alice">>]}

Url == <<"https://", "example.com">>
BareUrl == <<"example.com">>          \* a URL without a scheme

(* steps in the shape parse_plan reads (action_type, details) *)
ParserSteps ==
    {[action_type |-> "navigation", details |-> [url |-> Url]],
     [action_type |-> "navigation", details |-> [url |-> BareUrl]],
     [action_type |-> "input", details |-> [selectors |-> Selectors(1), text |-> <<"hello">>]],
     [action_type |-> "input", details |-> [selectors |-> <<>>, text |-> <<"hello">>]],
     [action_type |-> "wait", details |-> [seconds |-> 2]],
     [action_type |-> "wait", details |-> EmptyDict],
     [action_type |-> "verify", details |-> [selectors |-> Selectors(1)]],
     [action_type |-> "scroll", details |-> EmptyDict],
     [action_type |-> "click"]}
        \cup {[action_type |-> "click", details |-> [selectors |-> Selectors(n)]] :
                n \in 0..MaxSel}

(* steps in the shape the prompt asks the planner for, gemini_client.py:43-57 *)
PlannerStep(n, type, value, selectors) ==
    [step_number |-> n, description |-> "d",
     action |-> [type |-> type, target |-> "t", value |-> value,
                 selectors |-> selectors]]

PlannerSteps ==
    {PlannerStep(1, "navigation", Url, <<>>),
     PlannerStep(2, "click", <<>>, <<"#accept">>)}

Steps == ParserSteps \cup PlannerSteps

Plans ==
    {EmptyDict, [plan_description |-> "d"]}
        \cup {[plan_description |-> "d", steps |-> s] : s \in SeqsUpTo(Steps, MaxSteps)}

(* what the model call and _extract_json_from_text give plan_actions *)
Generations ==
    {[kind |-> "raise"]}
        \cup {[kind |-> "dict", value |-> p] : p \in Plans}
        \cup {[kind |-> "list", items |-> s] : s \in SeqsUpTo(PlannerSteps, 1)}

(* action records in the vocabulary execute_action dispatches on, with every
   combination of a present or missing value and selector list *)
Values ==
    {Url, <<"2">>, <<"1.5">>, <<"Enter">>, <<"ENV:", "USER">>,
     <<"ENV:", "USER", "ENV:", "X">>}
Kinds == {"navigation", "click", "type", "wait", "submit", "press", "goto"}

ExecActions ==
    {[target |-> "t"]}
        \cup {[action |-> t] : t \in Kinds}
        \cup {[action |-> t, value |-> v] : t \in Kinds, v \in Values}
        \cup {[action |-> t, selectors |-> Selectors(n)] : t \in Kinds, n \in 0..MaxSel}
        \cup {[action |-> t, value |-> v, selectors |-> Selectors(n)] :
                t \in Kinds, v \in Values, n \in 0..MaxSel}

(* the action lists the loop of interact is run on when the list is given *)
LoopActions ==
    {[action |-> "navigation", value |-> Url, selectors |-> <<>>],
     [action |-> "click", value |-> <<>>, selectors |-> Selectors(1)],
     [action |-> "wait", value |-> <<"2">>, selectors |-> <<>>],
     [action |-> "goto", url |-> Url],
     [target |-> "t"]}

----------------------------------------------------------------------------
(* State machine *)

Ev(ev, idx, n) == [ev |-> ev, idx |-> idx, n |-> n]

Blank ==
    /\ plan = None
    /\ actions = <<>>
    /\ cursor = 1
    /\ log = <<>>
    /\ calls = <<>>
    /\ executed = <<>>
    /\ faults = {}
    /\ result = NoResult
    /\ raised = FALSE
    /\ response = NoResponse
    /\ args = NoArgs
    /\ earlier = <<>>
    /\ setup = "done"
    /\ page = InstalledPage

(* Browser.interact(command) is called on a Browser built with the agent *)
Init ==
    /\ pc = "start"
    /\ agent \in {"GeminiAgent", "stub"}
    /\ environ \in Environs
    /\ Blank

(* interact ends with the completion c *)
Finish(c) ==
    /\ pc' = "done"
    /\ raised' = c.raised
    /\ result' = IF c.raised THEN NoResult ELSE c.value

(* A later invocation on the same Browser: the page is unchanged and the
   planner is deterministic, so the snapshot, the planner, the executor and
   the delay after an action answer as they did in the first invocation.
   The banner clicks and the length of the delays are not held fixed. *)
Replaying == earlier # <<>>
Before == earlier[1]

SnapshotAsBefore(out) ==
    Replaying =>
        /\ out # "ok" <=> "content" \in Before.faults
        /\ out # "ok" => UnexpectedError(DriverExc(out)) = Before.result

PlannerAsBefore ==
    IF "planning" \in Before.faults THEN Raise(PlannerFault, <<>>)
    ELSE Return(Before.plan, <<>>)

ExecutorAsBefore(k, x, d) ==
    Replaying /\ k <= Len(Before.executed) =>
        /\ ~x.raised /\ x.value = Before.executed[k]
        /\ d # "ok" <=> "delay" \in Before.faults /\ k = Len(Before.executed)
        /\ d # "ok" => UnexpectedError(DriverExc(d)) = Before.result

(* browser.py:111 *)
Snapshot ==
    /\ pc = "start"
    /\ \E out \in {v \in CallOutcomes : SnapshotAsBefore(v)} :
        IF out = "ok"
        THEN /\ pc' = "planning"
             /\ UNCHANGED <<faults, result, raised>>
        ELSE /\ Finish(interact_except(Raise(DriverExc(out), <<>>)))
             /\ faults' = faults \cup {"content"}
    /\ UNCHANGED <<setup, page, earlier, args, response, agent, environ, plan, actions,
                   cursor, log, calls, executed>>

(* what self.agent.plan_actions does, as a completion: GeminiAgent's, or a
   stub planner that raises or returns a dict as it is *)
agent_plan_actions(a, gen) ==
    IF a = "GeminiAgent" THEN Return(plan_actions(gen), <<>>)
    ELSE IF gen.kind = "raise" THEN Raise(PlannerFault, <<>>)
    ELSE Return(gen.value, <<>>)

(* browser.py:115: what `await self.agent.plan_actions(command, page_content)`
   can answer *)
PlannerAnswers ==
    IF Replaying THEN {PlannerAsBefore}
    ELSE {agent_plan_actions(agent, gen) :
            gen \in {g \in Generations : agent = "stub" => g.kind # "list"}}

(* browser.py:115-122 *)
Planning ==
    /\ pc = "planning"
    /\ \E c \in PlannerAnswers :
        /\ c \in PlannerAnswers
        /\ IF c.raised
           THEN /\ Finish(interact_except(c))
                /\ faults' = faults \cup {"planning"}
                /\ UNCHANGED plan
           ELSE /\ plan' = c.value
                /\ faults' = faults
                /\ IF plan_unusable(c.value)
                   THEN Finish(Return(PlanningError, <<>>))
                   ELSE /\ pc' = "normalizing"
                        /\ UNCHANGED <<result, raised>>
    /\ UNCHANGED <<setup, page, earlier, args, response, agent, environ,
                   actions, cursor, log, calls, executed>>

(* browser.py:125 *)
Normalizing ==
    /\ pc = "normalizing"
    /\ LET c == parse_plan(plan) IN
        IF c.raised
        THEN /\ Finish(interact_except(c))
             /\ faults' = faults \cup {"parse"}
             /\ UNCHANGED actions
        ELSE /\ actions' = c.value
             /\ pc' = "loop"
             /\ UNCHANGED <<faults, result, raised>>
    /\ UNCHANGED <<setup, page, earlier, args, response, agent, environ,
                   plan, cursor, log, calls, executed>>

(* the faults of one loop iteration *)
IterationFaults(bo, x, aft, d) ==
    (IF \E k \in DOMAIN bo : bo[k] # "ok" THEN {"banner"} ELSE {})
        \cup (IF \E k \in DOMAIN x.calls : x.calls[k].out \in {"timeout", "fault"}
              THEN {"driver"} ELSE {})
        \cup (IF ~x.raised /\ Has(x.value, "error_type")
                 /\ x.value.error_type = "ActionError"
              THEN {"executor"} ELSE {})
        \cup (IF x.raised THEN {"executor_raised"} ELSE {})
        \cup (IF aft.next = "raise" /\ aft.exc.type = "KeyError" THEN {"result"} ELSE {})
        \cup (IF aft.next = "raise" /\ aft.exc.type # "KeyError" THEN {"delay"} ELSE {})

(* browser.py:131-141: what one iteration of the loop does, in order: the
   banner pass, the executor call, and the delay that follows a success *)
iteration_events_no_banners(k, b, x, ms) ==
    IF b.raised THEN <<>>
    ELSE <<Ev("execute", k, 0)>>
           \o IF ~x.raised /\ x.value.success
              THEN <<Ev("delay", k, ms)>> ELSE <<>>

iteration_events(k, b, x, ms) ==
    IF b.raised THEN <<Ev("banners", k, b.clicked)>>
    ELSE <<Ev("banners", k, b.clicked), Ev("execute", k, 0)>>
           \o IF ~x.raised /\ x.value.success
              THEN <<Ev("delay", k, ms)>> ELSE <<>>

(* browser.py:129-141: one iteration of `for action in actions` *)
Executing ==
    /\ pc = "loop"
    /\ cursor <= Len(actions)
    /\ \E bo \in BannerOracles, o \in Oracles(actions[cursor]) :
        LET b == handle_cookie_banners(bo, 1, 0)
            e == execute_action(environ, actions[cursor], o)
            x == e.completion
            acted == ~b.raised /\ ~x.raised
        IN  \E d \in IF acted /\ x.value.success THEN CallOutcomes ELSE {"ok"},
               ms \in IF acted /\ x.value.success THEN Delays ELSE {HumanDelayMin} :
            LET aft == IF b.raised THEN [next |-> "raise", exc |-> PlaywrightError]
                       ELSE IF x.raised THEN [next |-> "raise", exc |-> x.exc]
                       ELSE after_action(x.value, d)
            IN  /\ ExecutorAsBefore(cursor, x, d)
                /\ actions' = IF b.raised THEN actions
                              ELSE [actions EXCEPT ![cursor] = e.action]
                /\ calls' = IF b.raised THEN calls ELSE x.calls
                /\ executed' = IF acted THEN Append(executed, x.value) ELSE executed
                /\ log' = log \o iteration_events(cursor, b, x, ms)
                /\ faults' = faults \cup IterationFaults(bo, x, aft, d)
                /\ IF aft.next = "continue"
                   THEN /\ cursor' = cursor + 1
                        /\ UNCHANGED <<pc, result, raised>>
                   ELSE /\ cursor' = cursor
                        /\ Finish(IF aft.next = "return"
                                  THEN Return(aft.value, <<>>)
                                  ELSE interact_except(Raise(aft.exc, <<>>)))
    /\ UNCHANGED <<setup, page, earlier, args, response, agent, environ, plan>>

(* browser.py:143-146: the loop is exhausted *)
Completed ==
    /\ pc = "loop"
    /\ cursor > Len(actions)
    /\ Finish(Return(CommandExecuted, <<>>))
    /\ UNCHANGED <<setup, page, earlier, args, response, agent, environ, plan, actions,
                   cursor, log, calls, executed, faults>>

Next == Snapshot \/ Planning \/ Normalizing \/ Executing \/ Completed

Spec == Init /\ [][Next]_vars

(* The loop of Browser.interact (browser.py:129-146, inside the try of
   109/148) on an action list in the executor's vocabulary, besides the
   lists parse_plan gives it *)
InitLoop ==
    \/ Init
    \/ /\ pc = "loop"
       /\ agent = "stub"
       /\ environ \in Environs
       /\ plan = None
       /\ actions \in SeqsUpTo(LoopActions, MaxSteps)
       /\ cursor = 1
       /\ log = <<>>
       /\ calls = <<>>
       /\ executed = <<>>
       /\ faults = {}
       /\ result = NoResult
       /\ raised = FALSE
       /\ response = NoResponse
       /\ args = NoArgs
       /\ earlier = <<>>
       /\ setup = "done"
       /\ page = InstalledPage

SpecLoop == InitLoop /\ [][Next]_vars

(* Browser.interact called again on the same Browser object (browser.py:19-35
   keeps page, parser, executor and agent between calls; 107-154 keeps
   nothing of a call but its return value).  The finished invocation is
   remembered in `earlier`, and the next one starts from the top. *)
InvocationRecord ==
    [result |-> result, raised |-> raised, plan |-> plan,
     executed |-> executed, faults |-> faults, log |-> log]

reinvoke_keeps_failure(rec) ==
    /\ earlier' = Append(earlier, rec)
    /\ pc' = IF rec.result.success THEN "start" ELSE "done"
    /\ result' = IF rec.result.success THEN NoResult ELSE CommandExecuted
    /\ UNCHANGED <<plan, actions, cursor, log, calls, executed, faults, raised>>

reinvoke(rec) ==
    /\ earlier' = Append(earlier, rec)
    /\ pc' = IF Has(args, "actions") THEN "loop" ELSE "start"
    /\ actions' = IF Has(args, "actions") THEN args.actions ELSE <<>>
    /\ plan' = None
    /\ cursor' = 1
    /\ log' = <<>>
    /\ calls' = <<>>
    /\ executed' = <<>>
    /\ faults' = {}
    /\ result' = NoResult
    /\ raised' = FALSE

Reinvoke ==
    /\ pc = "done"
    /\ Len(earlier) < MaxRuns - 1
    /\ reinvoke(InvocationRecord)
    /\ UNCHANGED <<setup, page, args, response, agent, environ>>

InitRerun ==
    \/ Init
    \/ /\ pc = "loop"
       /\ agent = "stub"
       /\ environ \in Environs
       /\ plan = None
       /\ actions \in {<<a>> : a \in LoopActions}
       /\ cursor = 1
       /\ log = <<>>
       /\ calls = <<>>
       /\ executed = <<>>
       /\ faults = {}
       /\ result = NoResult
       /\ raised = FALSE
       /\ response = NoResponse
       /\ args = [actions |-> actions]
       /\ earlier = <<>>
       /\ setup = "done"
       /\ page = InstalledPage

NextRerun == Next \/ Reinvoke

SpecRerun == InitRerun /\ [][NextRerun]_vars

(* the selectors a wait action waits on (executor.py:81-83) *)
NumWaited(action) ==
    IF Has(action, "action") /\ action.action = "wait" THEN NumCandidates(action)
    ELSE 0

(* CommandExecutor.execute_action(page, action) called on one action record,
   on a page whose elements become visible when args.visible says *)
InitExec ==
    /\ pc = "execute_action"
    /\ agent = "stub"
    /\ environ \in Environs
    /\ plan = None
    /\ actions \in {<<a>> : a \in ExecActions}
    /\ cursor = 1
    /\ log = <<>>
    /\ calls = <<>>
    /\ executed = <<>>
    /\ faults = {}
    /\ result = NoResult
    /\ raised = FALSE
    /\ response = NoResponse
    /\ args \in {[visible |-> v] : v \in Visibilities(NumWaited(actions[1]))}
    /\ earlier = <<>>
    /\ setup = "done"
    /\ page = InstalledPage

ExecuteAction ==
    /\ pc = "execute_action"
    /\ \E o \in {v \in Oracles(actions[1]) : v.vis = args.visible} :
        LET e == execute_action(environ, actions[1], o)
            x == e.completion
        IN  /\ actions' = <<e.action>>
            /\ calls' = x.calls
            /\ executed' = IF x.raised THEN executed ELSE <<x.value>>
            /\ raised' = x.raised
            /\ result' = IF x.raised THEN NoResult ELSE x.value
            /\ pc' = "returned"
    /\ UNCHANGED <<setup, page, earlier, args, response, agent, environ,
                   plan, cursor, log, faults>>

NextExec == ExecuteAction

SpecExec == InitExec /\ [][NextExec]_vars
----------------------------------------------------------------------------
(* Properties *)

Last(s) == s[Len(s)]
IsUnexpected(r) == Has(r, "error_type") /\ r.error_type = "UnexpectedError"

(* the log positions of the executor calls, and the rank of one among them *)
ExecutePositions == {j \in DOMAIN log : log[j].ev = "execute"}
ExecIndex(j) == Cardinality({m \in ExecutePositions : m <= j})

(* C1: in Browser.interact, once an executed action returns success=false
   nothing follows it: no banner pass, no executor call and no delay for a
   later action, no action is executed twice, and interact has returned
   (with a failure) in the same step. *)
C1_FailFast ==
    /\ \A j \in ExecutePositions :
        ExecIndex(j) <= Len(executed) /\ ~executed[ExecIndex(j)].success =>
            /\ j = Len(log)
            /\ pc = "done"
            /\ cursor = log[j].idx
            /\ ~raised /\ result # NoResult /\ ~result.success
    /\ \A j, m \in ExecutePositions : j < m => log[j].idx < log[m].idx
    /\ \A j \in DOMAIN log : log[j].idx <= cursor

(* a two-action list whose first action failed: the second was never touched *)
C1_Witness ==
    /\ pc = "done"
    /\ Len(actions) = 2
    /\ Len(executed) = 1
    /\ ~executed[1].success
    /\ log = <<Ev("banners", 1, 0), Ev("execute", 1, 0)>>

(* C2 (as claimed): when an action fails, interact returns that action's own
   result record, unchanged. *)
C2_ReturnsActionResult ==
    pc = "done" /\ executed # <<>> /\ ~Last(executed).success =>
        ~raised /\ result = Last(executed)

(* C3 (as claimed): interact returns success=true only if every step of the
   plan was executed by the executor, in array order, each with success. *)
C3_SuccessMeansAllStepsRan ==
    pc = "done" /\ ~raised /\ result.success /\ Has(plan, "steps") =>
        /\ Len(executed) = Len(plan.steps)
        /\ \A k \in DOMAIN executed : executed[k].success
        /\ \A j \in ExecutePositions : log[j].idx = ExecIndex(j)

AnyCallFaulted == \E k \in DOMAIN calls : calls[k].out \in {"timeout", "fault"}
LastCallFaulted == calls # <<>> /\ Last(calls).out \in {"timeout", "fault"}

(* C4 (as claimed): execute_action never raises, its result has a boolean
   success, and any driver fault or expired wait during it gives
   success=false. *)
C4_AnyFaultFails ==
    pc = "returned" =>
        /\ ~raised
        /\ result.success \in BOOLEAN
        /\ AnyCallFaulted => ~result.success

(* C4 (amended): execute_action never raises and its result has a boolean
   success; success=false whenever the last driver call of the action
   faulted or timed out, and whenever the body raised (error kind
   ActionError). A fault on an earlier candidate is absorbed when a later
   one succeeds. *)
C4_NeverRaises ==
    pc = "returned" =>
        /\ ~raised
        /\ result.success \in BOOLEAN
        /\ LastCallFaulted => ~result.success
        /\ Has(result, "error_type") => ~result.success

(* a driver fault that reached the outer handler and became a failed record *)
C4_Witness ==
    /\ pc = "returned"
    /\ LastCallFaulted
    /\ result = ActionError(PlaywrightError)

LoopFaults == {"content", "planning", "parse", "result", "delay"}

(* C5 (as claimed): interact never raises, and any fault in snapshotting,
   planning, plan parsing, obstruction clearing, action execution or result
   handling gives success=false with error kind Unexpected. *)
C5_AnyFaultUnexpected ==
    pc = "done" =>
        /\ ~raised
        /\ faults \cap {"content", "planning", "parse", "banner", "driver",
                        "executor", "result"} # {} =>
                ~result.success /\ IsUnexpected(result)

(* C5 (amended): interact never raises; it returns success=false with error
   kind Unexpected exactly when the snapshot, a planner call, plan parsing,
   result handling or the humanization delay raised. Faults of obstruction
   clearing are swallowed and faults inside execute_action come back as the
   executor's own record: neither makes the result Unexpected. *)
C5_NeverRaises ==
    /\ ~raised
    /\ pc = "done" =>
        /\ result # NoResult
        /\ result.success \in BOOLEAN
        /\ IsUnexpected(result) <=> faults \cap LoopFaults # {}
        /\ IsUnexpected(result) => ~result.success

(* plan parsing raised and interact returned the Unexpected record *)
C5_Witness ==
    /\ pc = "done"
    /\ "parse" \in faults
    /\ result = UnexpectedError(KeyError("'action_type'"))

(* C6: when the planner returns nothing, or a plan whose steps are missing or
   empty, interact returns the planning error and there was no banner pass,
   no executor call and no page-driver call of an action. *)
C6_UnusablePlan ==
    pc = "done" /\ faults \cap {"content", "planning"} = {}
        /\ (plan = None \/ ~Has(plan, "steps") \/ plan.steps = <<>>) =>
            /\ ~raised
            /\ result = PlanningError
            /\ log = <<>>
            /\ executed = <<>>
            /\ calls = <<>>
            /\ actions = <<>>

(* a planner that hands interact a plan with an empty steps list *)
C6_Witness ==
    /\ pc = "done"
    /\ faults = {}
    /\ Has(plan, "steps")
    /\ plan.steps = <<>>
    /\ result = PlanningError

(* C7 (as claimed): the planner-shaped plan [navigate, click "#accept"], run
   with no driver call failing, gives success=true. *)
C7_PlannerPlanSucceeds ==
    pc = "done" /\ Has(plan, "steps")
        /\ plan.steps = <<PlannerStep(1, "navigation", Url, <<>>),
                          PlannerStep(2, "click", <<>>, <<"#accept">>)>>
        /\ faults \cap {"content", "planning", "driver", "delay"} = {} =>
            ~raised /\ result.success

IsWait(c) == c.op = "wait_for_selector"
WaitCalls == SelectSeq(calls, IsWait)
ActOf(action) == IF action.action = "click" THEN "click" ELSE "fill"
IsCandidateAction ==
    /\ Has(actions[1], "action")
    /\ actions[1].action \in {"click", "type"}
    /\ Has(actions[1], "selectors")

(* C8: a click or type action attempts its candidates in list order, each at
   most once; a click/fill is made only on a candidate that became visible;
   the first click/fill that does not fail ends the action, is its last
   driver call, and the result is exactly {"success": True}, with nothing of
   the earlier failed candidates; success is returned in no other way. *)
C8_FirstSuccessWins ==
    pc = "returned" /\ IsCandidateAction =>
        LET a == actions[1]
            W == WaitCalls
        IN  /\ Len(W) <= Len(a.selectors)
            /\ \A j \in DOMAIN W : W[j].arg = <<a.selectors[j]>>
            /\ \A k \in DOMAIN calls :
                ~IsWait(calls[k]) =>
                    /\ calls[k].op = ActOf(a)
                    /\ k > 1 /\ IsWait(calls[k - 1])
                    /\ calls[k - 1].out = "ok" /\ calls[k - 1].arg = calls[k].arg
                    /\ calls[k].out = "ok" => k = Len(calls) /\ result = Success
            /\ result.success =>
                /\ result = Success
                /\ calls # <<>>
                /\ Last(calls).op = ActOf(a) /\ Last(calls).out = "ok"

(* only the last of two candidates is valid: the action succeeds on it *)
C8_Witness ==
    /\ pc = "returned"
    /\ IsCandidateAction
    /\ Len(actions[1].selectors) = 2
    /\ Len(calls) = 3
    /\ calls[1].out = "timeout"
    /\ calls[3] = Call(ActOf(actions[1]), <<actions[1].selectors[2]>>, "ok")
    /\ result = Success

(* C9 (as claimed): a click or type action none of whose N candidates
   resolves returns success=false with an error kind (ActionFailed) and a
   message saying that all candidates were tried. *)
C9_ExhaustedIsActionFailed ==
    pc = "returned" /\ IsCandidateAction
        /\ Len(actions[1].selectors) >= 1
        /\ Len(WaitCalls) = Len(actions[1].selectors)
        /\ (\A k \in DOMAIN calls : IsWait(calls[k]) /\ calls[k].out # "ok") =>
            /\ ~result.success
            /\ Has(result, "message")
            /\ result.message \in {<<"Click action failed for all selectors">>,
                                   <<"Type action failed for all selectors">>}
            /\ Has(result, "error_type")

(* C10 (as claimed): in every result record of the executor and of interact
   the error kind is present iff success=false. *)
C10_ErrorKindIffFailed ==
    /\ \A k \in DOMAIN executed :
        Has(executed[k], "error_type") <=> ~executed[k].success
    /\ pc = "done" /\ ~raised =>
        (Has(result, "error_type") <=> ~result.success)

(* the kinds execute_action dispatches on, executor.py:31, 44, 62, 80, 102, 127 *)
KnownKinds == {"navigation", "click", "type", "wait", "submit", "press"}

(* C11: an action whose kind is none of the six dispatched kinds returns
   success=false with error kind UnknownAction and makes no driver call; an
   action of a known kind never returns that error kind (a failure during
   its execution carries ActionError or no kind). *)
C11_UnknownAction ==
    pc = "returned" /\ Has(actions[1], "action") =>
        /\ actions[1].action \notin KnownKinds =>
            /\ ~raised
            /\ ~result.success
            /\ Has(result, "error_type") /\ result.error_type = "UnknownAction"
            /\ result.message = <<"Unknown action type: ", actions[1].action>>
            /\ calls = <<>>
        /\ actions[1].action \in KnownKinds =>
            ~(Has(result, "error_type") /\ result.error_type = "UnknownAction")

(* the parser's "goto" handed to the executor, with a value and candidates *)
C11_Witness ==
    /\ pc = "returned"
    /\ Has(actions[1], "action") /\ actions[1].action = "goto"
    /\ Has(actions[1], "value") /\ Has(actions[1], "selectors")
    /\ Len(actions[1].selectors) = 2
    /\ result = [success |-> FALSE,
                 message |-> <<"Unknown action type: ", "goto">>,
                 error_type |-> "UnknownAction"]
    /\ calls = <<>>

IsNavigation ==
    /\ Has(actions[1], "action") /\ actions[1].action = "navigation"
    /\ Has(actions[1], "value")

(* C12: a navigation action succeeds iff page.goto returned a response whose
   status is < 400 and no driver call of the action raised; a missing
   response (None), a status >= 400, a navigation timeout and a driver fault
   (of goto or of the wait for the page being ready) all give success=false.
   The URL handed to goto is the action's value. *)
C12_NavigationSuccess ==
    pc = "returned" /\ IsNavigation =>
        /\ ~raised
        /\ calls # <<>> /\ calls[1].op = "goto" /\ calls[1].arg = actions[1].value
        /\ result.success <=>
            /\ calls[1].out = "ok" /\ calls[1].status < 400
            /\ ~AnyCallFaulted
        /\ calls[1].out = "none" => ~result.success
        /\ calls[1].out = "ok" /\ calls[1].status >= 400 => ~result.success
        /\ calls[1].out = "timeout" => ~result.success
        /\ AnyCallFaulted => ~result.success

(* the largest status that is still a success *)
C12_Witness ==
    /\ pc = "returned"
    /\ IsNavigation
    /\ Len(calls) = 2
    /\ calls[1].out = "ok" /\ calls[1].status = 399
    /\ result = Success

(* C13 (as claimed): a wait action with no selectors succeeds whatever its
   value, after one sleep and with no selector lookup on the page (here: as
   long as the sleep itself does not fault). *)
C13_PlainWaitAlwaysSucceeds ==
    pc = "returned" /\ Has(actions[1], "action") /\ actions[1].action = "wait"
        /\ Has(actions[1], "value") /\ NumCandidates(actions[1]) = 0
        /\ ~AnyCallFaulted =>
            /\ ~raised
            /\ result.success
            /\ Len(calls) = 1 /\ calls[1].op = "wait_for_timeout"

IsPress ==
    /\ Has(actions[1], "action") /\ actions[1].action = "press"
    /\ Has(actions[1], "value")

(* C14: a press action makes exactly one driver call, page.keyboard.press of
   the key its value names, and succeeds (with exactly {"success": True})
   iff that call does not raise. *)
C14_PressOneKey ==
    pc = "returned" /\ IsPress =>
        /\ ~raised
        /\ Len(calls) = 1
        /\ calls[1].op = "press" /\ calls[1].arg = actions[1].value
        /\ result.success <=> calls[1].out = "ok"
        /\ result.success => result = Success

(* the key event raised: one call, and a failed record that says so *)
C14_Witness ==
    /\ pc = "returned"
    /\ IsPress
    /\ calls = <<Call("press", <<"Enter">>, "fault")>>
    /\ ~result.success
    /\ result.message[1] = "Press action failed: "

(* what the claim says the driver is given for a value: the variable named
   by everything after the prefix, "" when it is unset *)
ClaimedValue(env, value) ==
    IF startswith_ENV(value) THEN getenv(env, Tail(value)) ELSE value

(* C15 (as claimed): the value a navigation, type or press action hands to
   the page driver is the action's value when it does not start with ENV:,
   and otherwise the value of the environment variable named after the
   prefix ("" when unset), never the literal ENV:<NAME>. *)
C15_EnvResolved ==
    [][pc = "execute_action" /\ Has(actions[1], "action")
            /\ Has(actions[1], "value") =>
        \A k \in DOMAIN calls' :
            LET c == calls'[k]
                t == actions[1].action
                v == ClaimedValue(environ, actions[1].value)
            IN  /\ t = "navigation" /\ c.op = "goto" => c.arg = v
                /\ t = "press" /\ c.op = "press" => c.arg = v
                /\ t = "type" /\ c.op = "fill" => c.text = v]_vars

(* C16 (as claimed): executing leaves the plan and its action records as the
   normalizer produced them: while the loop or execute_action runs, no field
   of any action record changes; only the cursor moves. *)
C16_PlanUnchanged ==
    [][(pc = "loop" \/ pc = "execute_action") =>
            (actions' = actions) /\ (plan' = plan)]_vars

(* str.startswith(("http://", "https://")) *)
has_scheme(url) == Len(url) > 0 /\ url[1] \in {"http://", "https://"}

(* C17 (as claimed): the URL of every navigation action that parse_plan
   hands to the loop, and the URL of every page.goto, starts with a scheme:
   a URL without one was prefixed with https:// by the parser. *)
C17_SchemePrefixed ==
    pc \in {"loop", "done"} =>
        /\ \A k \in DOMAIN actions :
            /\ Has(actions[k], "url") => has_scheme(actions[k].url)
            /\ Has(actions[k], "action") /\ actions[k].action = "navigation"
                    /\ Has(actions[k], "value") => has_scheme(actions[k].value)
        /\ \A k \in DOMAIN calls : calls[k].op = "goto" => has_scheme(calls[k].arg)

----------------------------------------------------------------------------
(* GeminiAgent._extract_json_from_text, gemini_client.py:210-225            *)
(*                                                                         *)
(* A text is a sequence of tokens: the JSON punctuation { } [ ] , : and the *)
(* quote, a blank " " (any white space), the fence markers ```json and ```, *)
(* and words (everything else). Between two quotes every token is content  *)
(* of the string. A parsed JSON value is a record tagged with its type.     *)

Quote == "\""
Space == " "
Numerals == {"0", "1", "2"}

JNull == [t |-> "null"]
JStr(s) == [t |-> "str", s |-> s]
JNum(w) == [t |-> "num", w |-> w]
JArr(items) == [t |-> "arr", items |-> items]
JObj(members) == [t |-> "obj", members |-> members]
Member(key, val) == [key |-> key, val |-> val]

JSONDecodeError == [type |-> "JSONDecodeError", msg |-> "Expecting value"]
AttributeError == [type |-> "AttributeError", msg |-> "no attribute 'get'"]

(* where the scanner fails, or has read the value val and stands at next *)
Bad == [ok |-> FALSE, val |-> JNull, next |-> 0]
Good(val, next) == [ok |-> TRUE, val |-> val, next |-> next]

(* the first position from i on that holds no white space *)
RECURSIVE skip_ws(_, _)
skip_ws(s, i) ==
    IF i <= Len(s) /\ s[i] = Space THEN skip_ws(s, i + 1) ELSE i

(* the position of the quote that closes the string whose content starts at
   i; 0 when the string is not closed *)
RECURSIVE closing_quote(_, _)
closing_quote(s, i) ==
    IF i > Len(s) THEN 0
    ELSE IF s[i] = Quote THEN i
    ELSE closing_quote(s, i + 1)

scan_string(s, i) ==
    LET j == closing_quote(s, i) IN
    IF j = 0 THEN Bad ELSE Good(JStr(SubSeq(s, i, j - 1)), j + 1)

RECURSIVE scan_value(_, _)
RECURSIVE scan_items(_, _, _)
RECURSIVE scan_members(_, _, _)

(* json.decoder.JSONArray after the first value position: i is where the
   next item is expected *)
scan_items(s, i, acc) ==
    LET r == scan_value(s, i)
        k == skip_ws(s, r.next)
    IN  IF ~r.ok \/ k > Len(s) THEN Bad
        ELSE IF s[k] = "]" THEN Good(JArr(Append(acc, r.val)), k + 1)
        ELSE IF s[k] = "," THEN scan_items(s, skip_ws(s, k + 1), Append(acc, r.val))
        ELSE Bad

(* json.decoder.JSONObject: i is where the next key is expected *)
scan_members(s, i, acc) ==
    IF i > Len(s) \/ s[i] # Quote THEN Bad
    ELSE
        LET key == scan_string(s, i + 1)
            c == skip_ws(s, key.next)
            r == scan_value(s, skip_ws(s, c + 1))
            k == skip_ws(s, r.next)
            m == Append(acc, Member(key.val.s, r.val))
        IN  IF ~key.ok \/ c > Len(s) \/ s[c] # ":" THEN Bad
            ELSE IF ~r.ok \/ k > Len(s) THEN Bad
            ELSE IF s[k] = "}" THEN Good(JObj(m), k + 1)
            ELSE IF s[k] = "," THEN scan_members(s, skip_ws(s, k + 1), m)
            ELSE Bad

(* json.scanner: one value that starts at i *)
scan_value(s, i) ==
    IF i > Len(s) THEN Bad
    ELSE IF s[i] = Quote THEN scan_string(s, i + 1)
    ELSE IF s[i] = "{" THEN
        LET k == skip_ws(s, i + 1) IN
        IF k <= Len(s) /\ s[k] = "}" THEN Good(JObj(<<>>), k + 1)
        ELSE scan_members(s, k, <<>>)
    ELSE IF s[i] = "[" THEN
        LET k == skip_ws(s, i + 1) IN
        IF k <= Len(s) /\ s[k] = "]" THEN Good(JArr(<<>>), k + 1)
        ELSE scan_items(s, k, <<>>)
    ELSE IF s[i] \in Numerals THEN Good(JNum(s[i]), i + 1)
    ELSE IF s[i] = "null" THEN Good(JNull, i + 1)
    ELSE Bad

(* json.loads: one value, white space around it, and nothing else *)
json_loads(s) ==
    LET r == scan_value(s, skip_ws(s, 1)) IN
    IF r.ok /\ skip_ws(s, r.next) > Len(s) THEN Return(r.val, <<>>)
    ELSE Raise(JSONDecodeError, <<>>)

(* re.sub(r"```json|```", "", text): every fence marker is dropped, wherever
   it stands.  gemini_client.py:212.  A TLA+ string cannot hold a backquote:
   the marker is written with ' for each backquote. *)
FenceJson == "'''json"
Fence == "'''"
IsFence(tok) == tok \in {FenceJson, Fence}
NotFence(tok) == ~IsFence(tok)
remove_fences(text) == SelectSeq(text, NotFence)

(* str.strip() *)
RECURSIVE strip(_)
strip(s) ==
    IF s = <<>> THEN s
    ELSE IF Head(s) = Space THEN strip(Tail(s))
    ELSE IF s[Len(s)] = Space THEN strip(SubSeq(s, 1, Len(s) - 1))
    ELSE s

(* sub_trailing for the pattern "," close, with no white space allowed
   between the comma and the bracket *)
RECURSIVE sub_trailing_adjacent(_, _, _)
sub_trailing_adjacent(s, close, i) ==
    IF i > Len(s) THEN <<>>
    ELSE IF s[i] = "," /\ i < Len(s) /\ s[i + 1] = close
         THEN <<close>> \o sub_trailing_adjacent(s, close, i + 2)
    ELSE <<s[i]>> \o sub_trailing_adjacent(s, close, i + 1)

(* re.sub(r",\s*}", "}", s) and re.sub(r",\s*]", "]", s), from position i on:
   a comma, any white space and the closing bracket become the bracket;
   the scan goes on after the match.  gemini_client.py:215-216 *)
RECURSIVE sub_trailing(_, _, _)
sub_trailing(s, close, i) ==
    IF i > Len(s) THEN <<>>
    ELSE IF s[i] = "," /\ skip_ws(s, i + 1) <= Len(s)
                       /\ s[skip_ws(s, i + 1)] = close
         THEN <<close>> \o sub_trailing(s, close, skip_ws(s, i + 1) + 1)
    ELSE <<s[i]>> \o sub_trailing(s, close, i + 1)

(* gemini_client.py:212-216 *)
cleaned_response(text) ==
    sub_trailing(sub_trailing(strip(remove_fences(text)), "}", 1), "]", 1)

(* gemini_client.py:223-225: except json.JSONDecodeError: return {} *)
extract_json_except(c) ==
    IF c.raised /\ c.exc.type = "JSONDecodeError"
    THEN Return(JObj(<<>>), <<>>) ELSE c

extract_json_from_text(text) ==
    extract_json_except(json_loads(cleaned_response(text)))

(* dict.get(key): the value of the last member with the key, else None *)
RECURSIVE dict_get(_, _, _)
dict_get(members, key, k) ==
    IF k = 0 THEN JNull
    ELSE IF members[k].key = key THEN members[k].val
    ELSE dict_get(members, key, k - 1)

(* the truth value Python gives a parsed JSON value *)
truthy(v) ==
    IF v.t = "str" THEN v.s # <<>>
    ELSE IF v.t = "num" THEN v.w # "0"
    ELSE IF v.t = "arr" THEN v.items # <<>>
    ELSE IF v.t = "obj" THEN v.members # <<>>
    ELSE FALSE

(* steps_check with `if "steps" not in plan`: an empty list of steps passes *)
steps_check_key_only(p) ==
    IF p.t # "obj" THEN Raise(AttributeError, <<>>)
    ELSE IF \A k \in DOMAIN p.members : p.members[k].key # <<"steps">>
         THEN Return(None, <<>>)
    ELSE Return(p, <<>>)

(* gemini_client.py:193-197: plan.get("steps") on what was parsed; a list or
   a scalar has no get *)
steps_check(p) ==
    IF p.t # "obj" THEN Raise(AttributeError, <<>>)
    ELSE IF ~truthy(dict_get(p.members, <<"steps">>, Len(p.members)))
         THEN Return(None, <<>>)
    ELSE Return(p, <<>>)

(* gemini_client.py:199-202: except Exception: return None *)
plan_actions_except(c) == IF c.raised THEN Return(None, <<>>) ELSE c

----------------------------------------------------------------------------
(* Responses of the language model: JSON values, and the texts they are
   written as *)

(* string values: plain, and with a comma before a bracket or a fence marker
   inside the string *)
StrBodies == {<<"a">>, <<"x", ",", "}">>, <<",", Space, "]">>, <<Fence>>}

StepValue(body) == JObj(<<Member(<<"value">>, JStr(body))>>)
PlanValue(steps) == JObj(<<Member(<<"steps">>, JArr(steps))>>)

JsonValues ==
    {PlanValue(s) : s \in SeqsUpTo({StepValue(b) : b \in StrBodies}, MaxSteps)}
        \cup {JObj(<<Member(<<"steps">>, v)>>) :
                v \in {JNull, JNum("0"), JNum("2"), JStr(<<>>)}}
        \cup {JObj(<<>>), JObj(<<Member(<<"k">>, JNum("1"))>>),
              JArr(<<>>), JArr(<<StepValue(<<"a">>)>>),
              JStr(<<"a">>), JNum("1"), JNull}

(* how a value is written: bare, inside a fence, or with prose before or
   after it; with a trailing comma in every non-empty object and array or
   not; with white space after the commas and colons or not *)
Wrappings == {"none", FenceJson, Fence, "prose_before", "prose_after"}
Layouts == [fence : Wrappings, commas : BOOLEAN, space : BOOLEAN]
RawLayout == [fence |-> "raw", commas |-> FALSE, space |-> FALSE]

Sep(lay) == IF lay.space THEN <<",", Space>> ELSE <<",">>
Trail(lay) == IF lay.commas THEN Sep(lay) ELSE <<>>

RECURSIVE dumps(_, _)
RECURSIVE dumps_items(_, _, _)
RECURSIVE dumps_members(_, _, _)

dumps_items(items, lay, k) ==
    dumps(items[k], lay)
        \o IF k < Len(items) THEN Sep(lay) \o dumps_items(items, lay, k + 1)
           ELSE <<>>

dumps_members(members, lay, k) ==
    <<Quote>> \o members[k].key \o <<Quote, ":">>
        \o (IF lay.space THEN <<Space>> ELSE <<>>)
        \o dumps(members[k].val, lay)
        \o IF k < Len(members) THEN Sep(lay) \o dumps_members(members, lay, k + 1)
           ELSE <<>>

dumps(v, lay) ==
    IF v.t = "str" THEN <<Quote>> \o v.s \o <<Quote>>
    ELSE IF v.t = "num" THEN <<v.w>>
    ELSE IF v.t = "null" THEN <<"null">>
    ELSE IF v.t = "arr" THEN
        IF v.items = <<>> THEN <<"[", "]">>
        ELSE <<"[">> \o dumps_items(v.items, lay, 1) \o Trail(lay) \o <<"]">>
    ELSE
        IF v.members = <<>> THEN <<"{", "}">>
        ELSE <<"{">> \o dumps_members(v.members, lay, 1) \o Trail(lay) \o <<"}">>

Written(v, lay) ==
    IF lay.fence = "none" THEN dumps(v, lay)
    ELSE IF lay.fence = "prose_before" THEN
        <<"Here", Space, "is", Space, "the", Space, "plan", Space>> \o dumps(v, lay)
    ELSE IF lay.fence = "prose_after" THEN dumps(v, lay) \o <<Space, "Done">>
    ELSE <<lay.fence, Space>> \o dumps(v, lay) \o <<Space, Fence>>

(* texts that are no JSON value: nothing, prose, prose before the value, an
   open brace, two trailing commas, an unclosed string, a fence with another
   language tag *)
RawTexts ==
    {<<>>, <<"Sorry">>, <<"Here", Space, "{", "}">>, <<"{">>,
     <<"{", Quote, "k", Quote, ":", "1", ",", ",", "}">>,
     <<"{", Quote, "k", "}">>,
     <<Fence, "js", Space, "{", "}", Space, Fence>>}

Responses ==
    {[text |-> Written(v, lay), value |-> v, layout |-> lay] :
        v \in JsonValues, lay \in Layouts}
        \cup {[text |-> t, value |-> JNull, layout |-> RawLayout] : t \in RawTexts}

----------------------------------------------------------------------------
(* GeminiAgent.plan_actions on the text of a response, gemini_client.py:178-202 *)

InitJson ==
    /\ pc = "generate"
    /\ agent = "GeminiAgent"
    /\ environ = EmptyDict
    /\ response \in Responses
    /\ args = NoArgs
    /\ earlier = <<>>
    /\ setup = "done"
    /\ page = InstalledPage
    /\ plan = None
    /\ actions = <<>>
    /\ cursor = 1
    /\ log = <<>>
    /\ calls = <<>>
    /\ executed = <<>>
    /\ faults = {}
    /\ result = NoResult
    /\ raised = FALSE

(* plan_actions ends with the completion c *)
Planned(c) ==
    /\ pc' = "planned"
    /\ raised' = c.raised
    /\ result' = IF c.raised THEN NoResult ELSE c.value

(* gemini_client.py:180-186: the model call returns the text, or raises *)
GenerateContent ==
    /\ pc = "generate"
    /\ \E out \in {"ok", "fault"} :
        IF out = "ok"
        THEN /\ pc' = "extract"
             /\ UNCHANGED <<faults, result, raised>>
        ELSE /\ Planned(plan_actions_except(Raise(PlannerFault, <<>>)))
             /\ faults' = faults \cup {"generate"}
    /\ UNCHANGED <<setup, page, earlier, args, response, agent, environ, plan, actions,
                   cursor, log, calls, executed>>

(* gemini_client.py:190: plan = self._extract_json_from_text(content) *)
ExtractJson ==
    /\ pc = "extract"
    /\ LET c == extract_json_from_text(response.text) IN
        IF c.raised
        THEN /\ Planned(plan_actions_except(c))
             /\ faults' = faults \cup {"json", "extract_raised"}
             /\ UNCHANGED plan
        ELSE /\ plan' = c.value
             /\ pc' = "check"
             /\ faults' = faults \cup
                    IF json_loads(cleaned_response(response.text)).raised
                    THEN {"json"} ELSE {}
             /\ UNCHANGED <<result, raised>>
    /\ UNCHANGED <<setup, page, earlier, args, response, agent, environ,
                   actions, cursor, log, calls, executed>>

(* gemini_client.py:193-197 *)
CheckSteps ==
    /\ pc = "check"
    /\ Planned(plan_actions_except(steps_check(plan)))
    /\ faults' = faults \cup IF steps_check(plan).raised THEN {"attribute"} ELSE {}
    /\ UNCHANGED <<setup, page, earlier, args, response, agent, environ, plan, actions,
                   cursor, log, calls, executed>>

NextJson == GenerateContent \/ ExtractJson \/ CheckSteps

SpecJson == InitJson /\ [][NextJson]_vars

----------------------------------------------------------------------------
(* Properties of the normalizer *)

Extracted == pc \in {"check", "planned"} /\ "generate" \notin faults
PlainLayout(lay) == [fence |-> "none", commas |-> FALSE, space |-> lay.space]

(* C18 (as claimed): for a well-formed JSON text (no fence, no trailing
   comma, no prose around it) _extract_json_from_text returns exactly what a
   strict JSON parse of the text gives, whatever its string values hold. *)
C18_WellFormedUnchanged ==
    Extracted /\ response.layout.fence = "none" /\ ~response.layout.commas
        /\ ~json_loads(response.text).raised =>
            /\ "json" \notin faults
            /\ plan = json_loads(response.text).value

(* C19: a JSON text wrapped in fence markers, with a trailing comma in its
   objects and in its arrays, is parsed without a decoding error and gives
   the same plan as the unwrapped, comma-free text of the same value. *)
C19_FencedCommasEquivalent ==
    Extracted /\ response.layout.fence \in {FenceJson, Fence}
        /\ response.layout.commas =>
            LET clean == dumps(response.value, PlainLayout(response.layout)) IN
            /\ "json" \notin faults
            /\ ~json_loads(cleaned_response(clean)).raised
            /\ plan = extract_json_from_text(clean).value

(* a fenced two-step plan with trailing commas followed by white space,
   returned by plan_actions as the plan it was written from *)
C19_Witness ==
    /\ pc = "planned"
    /\ response.layout = [fence |-> FenceJson, commas |-> TRUE, space |-> TRUE]
    /\ response.value = PlanValue(<<StepValue(<<"a">>), StepValue(<<"a">>)>>)
    /\ plan = response.value
    /\ result = plan

(* the value of the steps member is missing, or is an empty list *)
NoSteps(p) ==
    \/ p.t # "obj"
    \/ \A k \in DOMAIN p.members : p.members[k].key # <<"steps">>
    \/ dict_get(p.members, <<"steps">>, Len(p.members)) = JArr(<<>>)

(* C20: no exception leaves _extract_json_from_text or plan_actions; a text
   that cannot be parsed gives the empty plan {}; and plan_actions returns
   None alike when the model call failed, when the text was unparseable and
   when the parsed plan has no steps member or an empty one. A plan is
   returned only as it was parsed, with steps in it. *)
C20_NoPlanIndistinguishable ==
    /\ ~raised
    /\ "extract_raised" \notin faults
    /\ pc \in {"check", "planned"} /\ "json" \in faults => plan = JObj(<<>>)
    /\ pc = "planned" =>
        /\ "generate" \in faults => result = None
        /\ "json" \in faults => result = None
        /\ "generate" \notin faults /\ NoSteps(plan) => result = None
        /\ result # None =>
            /\ result = plan
            /\ plan.t = "obj"
            /\ truthy(dict_get(plan.members, <<"steps">>, Len(plan.members)))

(* a well-formed plan with an empty steps list: plan_actions returned None *)
C20_Witness ==
    /\ pc = "planned"
    /\ faults = {}
    /\ plan = PlanValue(<<>>)
    /\ result = None

(* C21 (as claimed): when the text is one JSON object with prose before or
   after it, the normalizer finds the balanced {...} span, parses it and
   returns that plan, not the empty plan. *)
C21_ProseAroundObject ==
    Extracted /\ response.layout.fence \in {"prose_before", "prose_after"}
        /\ ~response.layout.commas /\ response.value.t = "obj" =>
            plan = extract_json_from_text(dumps(response.value, response.layout)).value

(* C22 (as claimed): when the parsed top-level value is a non-empty list,
   it is wrapped into a plan whose steps are the entries of the list, in
   order, and plan_actions returns that plan. *)
C22_ListWrappedIntoPlan ==
    pc = "planned" /\ faults \cap {"generate", "json"} = {}
        /\ plan.t = "arr" /\ plan.items # <<>> =>
            /\ ~raised
            /\ result # None
            /\ result = PlanValue(plan.items)

(* ------------------------------------------------------------------ *)
(* Repeated invocations                                                 *)

Kind(r) ==
    [success |-> r.success,
     error_type |-> IF Has(r, "error_type") THEN r.error_type ELSE "none"]

DelaysOf(l) == {l[i].n : i \in {j \in DOMAIN l : l[j].ev = "delay"}}

(* C23: when interact is run again with the same command on an unchanged
   page and environment and with a deterministic planner, every invocation
   returns a result with the same success flag and the same error kind as
   the earlier ones, whatever the lengths of the humanization delays and
   the outcomes of the banner clicks were *)
C23_SameKindOnRerun ==
    pc = "done" =>
        /\ ~raised
        /\ \A i \in DOMAIN earlier :
            ~earlier[i].raised /\ Kind(result) = Kind(earlier[i].result)

C23_Witness ==
    /\ pc = "done"
    /\ Replaying
    /\ result.success
    /\ DelaysOf(log) # {}
    /\ DelaysOf(log) \cap DelaysOf(Before.log) = {}

C23_WitnessFailure ==
    /\ pc = "done"
    /\ Replaying
    /\ ~result.success
    /\ result.error_type = "UnexpectedError"
    /\ Before.result.error_type = "UnexpectedError"

BannersOf(l) == {l[i].n : i \in {j \in DOMAIN l : l[j].ev = "banners"}}

(* C25: clearing obstructions never changes the verdict of a plan: a banner
   pass swallows every failure of a click attempt and of the delay after a
   click and still tries every banner selector, and interact returns the
   same result as in an invocation where the banner attempts went
   differently and the executor answered the same *)
C25_BannersNeverChangeVerdict ==
    /\ \A bo \in BannerOracles :
        LET b == handle_cookie_banners(bo, 1, 0)
        IN  ~b.raised /\ b.tried = NumCookieSelectors
    /\ pc = "done" /\ Replaying => ~raised /\ result = Before.result

C25_Witness ==
    /\ pc = "done"
    /\ Replaying
    /\ executed # <<>>
    /\ BannersOf(log) = {0}
    /\ BannersOf(Before.log) = {NumCookieSelectors}
    /\ "banner" \in faults
    /\ result = Before.result

(* ------------------------------------------------------------------ *)
(* The order of the steps of one loop iteration                         *)

EventsOf(l, ev) == {i \in DOMAIN l : l[i].ev = ev}

(* C24: the banner pass runs exactly once immediately before each executor
   call: every executor call is directly preceded by the banner pass of its
   own action, every banner pass is directly followed by its action's
   executor call and comes after the previous action's result (and delay),
   so a run that executes k actions makes exactly k passes *)
C24_OneBannerPassPerAction ==
    /\ \A i \in EventsOf(log, "execute") :
        i > 1 /\ log[i - 1].ev = "banners" /\ log[i - 1].idx = log[i].idx
    /\ \A i \in EventsOf(log, "banners") :
        /\ i < Len(log) /\ log[i + 1].ev = "execute"
        /\ i = 1 \/ (log[i - 1].ev \in {"execute", "delay"}
                     /\ log[i - 1].idx = log[i].idx - 1)
    /\ Cardinality(EventsOf(log, "banners")) = Cardinality(EventsOf(log, "execute"))
    /\ Cardinality(EventsOf(log, "execute")) >= Len(executed)

C24_Witness ==
    /\ pc = "done"
    /\ Len(executed) >= 2
    /\ Cardinality(EventsOf(log, "banners")) = Len(executed)

(* C26: after every executed action, succeeded or failed, interact makes
   one humanization delay before it goes on, and the length of the delay
   lies in [HumanDelayMin, HumanDelayMax] *)
C26_DelayAfterEveryAction ==
    \A i \in EventsOf(log, "execute") :
        /\ i < Len(log)
        /\ log[i + 1].ev = "delay"
        /\ log[i + 1].idx = log[i].idx
        /\ log[i + 1].n \in HumanDelayMin..HumanDelayMax

(* what the loop does: the delay follows the successes only *)
C26_DelayAfterSuccessOnly ==
    \A i \in EventsOf(log, "execute") :
        LET r == executed[log[i].idx]
        IN  Len(executed) >= log[i].idx =>
              IF r.success
              THEN /\ i < Len(log) /\ log[i + 1].ev = "delay"
                   /\ log[i + 1].n \in HumanDelayMin..HumanDelayMax
              ELSE i = Len(log)

(* ------------------------------------------------------------------ *)
(* submit                                                               *)

IsSubmit == Has(actions[1], "action") /\ actions[1].action = "submit"
IsSettle(c) == c.op = "wait_for_load_state"

(* the Enter key press or the settle wait after it raised *)
KeyPathRaised ==
    \/ calls[1].out # "ok"
    \/ calls[2].out # "ok"

(* the driver calls made after the key-press path *)
AfterKeyPath ==
    SubSeq(calls, IF calls[1].out = "ok" THEN 3 ELSE 2, Len(calls))

(* C27: a submit action first presses Enter and waits for the page to
   settle; when neither raises it returns success and tries no selector; the
   candidates are tried only when the key-press path raised, in list order,
   the first one that is visible, clicked and settled ending the action with
   success; the action fails only when the key-press path raised and every
   candidate failed *)
C27_SubmitKeyThenCandidates ==
    pc = "returned" /\ IsSubmit =>
        LET a == actions[1]
            R == AfterKeyPath
            W == SelectSeq(R, IsWait)
        IN  /\ ~raised
            /\ calls # <<>>
            /\ calls[1].op = "press" /\ calls[1].arg = <<"Enter">>
            /\ calls[1].out = "ok" =>
                /\ Len(calls) >= 2
                /\ IsSettle(calls[2]) /\ calls[2].arg = <<"networkidle">>
            /\ ~KeyPathRaised => result = Success /\ Len(calls) = 2
            /\ R # <<>> => KeyPathRaised /\ Has(a, "selectors")
            /\ \A j \in DOMAIN W : W[j].arg = <<a.selectors[j]>>
            /\ \A k \in DOMAIN R :
                /\ R[k].op = "click" =>
                    /\ k > 1 /\ IsWait(R[k - 1]) /\ R[k - 1].out = "ok"
                    /\ R[k - 1].arg = R[k].arg
                /\ IsSettle(R[k]) =>
                    /\ k > 1 /\ R[k - 1].op = "click" /\ R[k - 1].out = "ok"
                    /\ R[k].out = "ok" => k = Len(R) /\ result = Success
            /\ result.success =>
                /\ result = Success
                /\ IsSettle(Last(calls)) /\ Last(calls).out = "ok"
            /\ ~result.success =>
                /\ KeyPathRaised
                /\ Has(a, "selectors") => Len(W) = Len(a.selectors)
                /\ \A k \in DOMAIN R : IsSettle(R[k]) => R[k].out # "ok"

(* the settle wait after Enter raised, the first candidate never showed, the
   second one was clicked and the page settled *)
C27_Witness ==
    /\ pc = "returned"
    /\ IsSubmit
    /\ Has(actions[1], "selectors") /\ Len(actions[1].selectors) = 2
    /\ calls[1].out = "ok" /\ calls[2].out = "fault"
    /\ Len(calls) = 6
    /\ calls[3].out = "timeout"
    /\ calls[5] = Call("click", <<actions[1].selectors[2]>>, "ok")
    /\ result = Success

C27_WitnessFailure ==
    /\ pc = "returned"
    /\ IsSubmit
    /\ Has(actions[1], "selectors") /\ Len(actions[1].selectors) = 2
    /\ calls[1].out = "fault"
    /\ result = Failure("Submit action failed")

(* ------------------------------------------------------------------ *)
(* wait with selectors                                                  *)

IsSelectorWait ==
    /\ Has(actions[1], "action") /\ actions[1].action = "wait"
    /\ Has(actions[1], "selectors") /\ actions[1].selectors # <<>>
    /\ Has(actions[1], "value") /\ IsNumeral(actions[1].value)

(* some selector of the action becomes visible within `value` milliseconds
   of the start of the action *)
VisibleInTime ==
    \E k \in 1..Len(actions[1].selectors) : args.visible[k] = 0

EverySelectorTimedOut ==
    /\ Len(calls) = Len(actions[1].selectors)
    /\ \A k \in DOMAIN calls : IsWait(calls[k]) /\ calls[k].out = "timeout"

(* C28: a wait action with selectors and a timeout value succeeds iff at
   least one of its selectors becomes visible within value milliseconds of
   the start of the action, and fails iff every selector times out *)
C28_WaitRacesSelectors ==
    pc = "returned" /\ IsSelectorWait =>
        /\ ~raised
        /\ result.success <=> VisibleInTime
        /\ ~result.success <=> EverySelectorTimedOut

(* what the loop of executor.py:83-94 does: the selectors are waited on one
   after the other, each for up to `value` milliseconds from the moment the
   wait on the one before it timed out *)
C28_WaitsInTurn ==
    pc = "returned" /\ IsSelectorWait =>
        /\ \A k \in DOMAIN calls :
            /\ IsWait(calls[k]) /\ calls[k].arg = <<actions[1].selectors[k]>>
            /\ calls[k].n = IntOf(actions[1].value)
            /\ calls[k].out = "ok" => k = Len(calls) /\ args.visible[k] <= k - 1
            /\ calls[k].out = "timeout" => args.visible[k] > k - 1
            /\ k < Len(calls) => calls[k].out = "timeout"
        /\ result.success <=> calls # <<>> /\ Last(calls).out = "ok"

(* the timing part of C28 alone: runs in which the driver did not fault *)
C28_WaitRacesSelectorsNoFault ==
    (\A k \in DOMAIN calls : calls[k].out # "fault") => C28_WaitRacesSelectors

----------------------------------------------------------------------------
(* The page snapshot in the prompt, gemini_client.py:26-35.  The page
   content is a string of up to twice the limit in length, written as runs:
   <<Run("a", 3), Run("b", 2)>> is "aaabb".  Literal text is a Lit element. *)

SnapshotLimit == 8000

Run(ch, n) == [ch |-> ch, len |-> n]
Lit(s) == [lit |-> s]
IsRun(e) == Has(e, "ch")
TruncationMarker == Lit("... (content truncated)")

(* len(s) *)
RECURSIVE len(_)
len(s) == IF s = <<>> THEN 0 ELSE Head(s).len + len(Tail(s))

(* s[:n] with no limit applied *)
slice_whole(s, n) == s

(* s[:n] *)
RECURSIVE slice(_, _)
slice(s, n) ==
    IF s = <<>> \/ n = 0 THEN <<>>
    ELSE IF Head(s).len <= n THEN <<Head(s)>> \o slice(Tail(s), n - Head(s).len)
    ELSE <<Run(Head(s).ch, n)>>

(* s[i - 1], the i-th character of a non-empty s, i in 1..len(s) *)
RECURSIVE CharAt(_, _)
CharAt(s, i) ==
    IF i <= Head(s).len THEN Head(s).ch ELSE CharAt(Tail(s), i - Head(s).len)

(* gemini_client.py:26-30: the `context` that the prompt of line 32-35
   includes *)
prompt_context(page_content) ==
    IF page_content = <<>> THEN <<>>
    ELSE
        LET shown == IF len(page_content) > SnapshotLimit
                     THEN slice(page_content, SnapshotLimit) \o <<TruncationMarker>>
                     ELSE page_content
        IN  <<Lit("\nCurrent page content: ")>> \o shown \o <<Lit("\n")>>

RunLengths == {1, SnapshotLimit - 1, SnapshotLimit, SnapshotLimit + 1}
Runs == {Run(ch, n) : ch \in {"a", "b"}, n \in RunLengths}
PageContents == {<<>>} \cup {<<r>> : r \in Runs} \cup {<<r, q>> : r, q \in Runs}

InitPrompt ==
    /\ pc = "prompt"
    /\ agent = "GeminiAgent"
    /\ environ = EmptyDict
    /\ response \in {r \in Responses : r.layout = RawLayout}
    /\ args \in {[page_content |-> c] : c \in PageContents}
    /\ earlier = <<>>
    /\ setup = "done"
    /\ page = InstalledPage
    /\ plan = None
    /\ actions = <<>>
    /\ cursor = 1
    /\ log = <<>>
    /\ calls = <<>>
    /\ executed = <<>>
    /\ faults = {}
    /\ result = NoResult
    /\ raised = FALSE

(* gemini_client.py:26-176: the prompt is built; it is what
   generate_content_async is then called with *)
BuildPrompt ==
    /\ pc = "prompt"
    /\ calls' = <<Call("generate_content_async", prompt_context(args.page_content), "ok")>>
    /\ pc' = "generate"
    /\ UNCHANGED <<setup, page, earlier, args, response, agent, environ, plan, actions,
                   cursor, log, executed, faults, result, raised>>

NextPrompt == BuildPrompt \/ NextJson

SpecPrompt == InitPrompt /\ [][NextPrompt]_vars

(* the page content that the prompt carries *)
SnapshotSent == SelectSeq(calls[1].arg, IsRun)

(* C29: the snapshot handed to the planner is at most SnapshotLimit
   characters of page content: content of up to SnapshotLimit characters is
   passed unchanged and with no marker; longer content is cut to its first
   SnapshotLimit characters, directly followed by the truncation marker; no
   character beyond the first SnapshotLimit is in the prompt *)
C29_SnapshotTruncated ==
    pc # "prompt" =>
        LET c == args.page_content
            ctx == calls[1].arg
            sent == SnapshotSent
            marked == \E i \in DOMAIN ctx : ctx[i] = TruncationMarker
        IN  /\ len(sent) <= SnapshotLimit
            /\ len(sent) = IF len(c) > SnapshotLimit THEN SnapshotLimit ELSE len(c)
            /\ \A i \in 1..len(sent) : CharAt(sent, i) = CharAt(c, i)
            /\ len(c) <= SnapshotLimit => sent = c /\ ~marked
            /\ len(c) > SnapshotLimit =>
                /\ marked
                /\ ctx[Len(ctx) - 1] = TruncationMarker
                /\ IsRun(ctx[Len(ctx) - 2])

(* a page one character over the limit, whose last character is another *)
C29_Witness ==
    /\ pc = "planned"
    /\ args.page_content = <<Run("a", SnapshotLimit), Run("b", 1)>>
    /\ SnapshotSent = <<Run("a", SnapshotLimit)>>
    /\ calls[1].arg[3] = TruncationMarker

(* a page of exactly the limit goes whole *)
C29_WitnessWhole ==
    /\ pc = "planned"
    /\ len(args.page_content) = SnapshotLimit
    /\ Len(args.page_content) = 2
    /\ SnapshotSent = args.page_content

----------------------------------------------------------------------------
(* The selector resolver, parser.py:62-98.  A description is a string
   written as a sequence of pieces; a table key is one piece. *)

MaxWords == 2      \* longest description, in pieces

(* str.lower() *)
lower_piece(w) ==
    IF w = "Username" THEN "username"
    ELSE IF w = "Login Button" THEN "login button"
    ELSE IF w = "Facebook.com" THEN "facebook.com"
    ELSE IF w = "HTTPS://" THEN "https://"
    ELSE w

lower(s) == [i \in DOMAIN s |-> lower_piece(s[i])]

(* `key in description` *)
Contains(description, key) ==
    \E i \in 0..(Len(description) - Len(key)) :
        \A j \in DOMAIN key : description[i + j] = key[j]

(* parser.py:67-72 and 86-91, in the order of the dict literal *)
InputTable ==
    <<[key |-> <<"search box">>,
       selector |-> <<"input[type='search'], input[name*='search'], input[placeholder*='search']">>],
      [key |-> <<"username">>,
       selector |-> <<"input[type='text'][name*='user'], input[name='username'], input[placeholder*='username']">>],
      [key |-> <<"password">>, selector |-> <<"input[type='password']">>],
      [key |-> <<"email">>, selector |-> <<"input[type='email']">>]>>

ElementTable ==
    <<[key |-> <<"search button">>,
       selector |-> <<"button[type='submit'], button:has-text('Search')">>],
      [key |-> <<"search results">>,
       selector |-> <<"#search-results, .search-results, [aria-label='Search results']">>],
      [key |-> <<"login button">>,
       selector |-> <<"button:has-text('Login'), button:has-text('Sign in')">>],
      [key |-> <<"submit button">>, selector |-> <<"button[type='submit']">>]>>

(* parser.py:79, 98 *)
input_fallback(d) ==
    <<"input[placeholder*='">> \o d \o <<"'], input[name*='">> \o d
        \o <<"'], input[aria-label*='">> \o d \o <<"']">>

element_fallback(d) ==
    <<"text=">> \o d \o <<", [aria-label*='">> \o d
        \o <<"'], [name*='">> \o d \o <<"']">>

(* the loop with its `return` left out of the body: the last key that is
   contained wins *)
RECURSIVE lookup_last_match(_, _, _, _)
lookup_last_match(table, d, k, default) ==
    IF k > Len(table) THEN default
    ELSE lookup_last_match(table, d, k + 1,
                           IF Contains(d, table[k].key) THEN table[k].selector
                           ELSE default)

(* parser.py:74-76, 93-95: `for key, selector in selectors.items():
   if key in description: return selector`, from entry k on *)
RECURSIVE lookup(_, _, _, _)
lookup(table, d, k, default) ==
    IF k > Len(table) THEN default
    ELSE IF Contains(d, table[k].key) THEN table[k].selector
    ELSE lookup(table, d, k + 1, default)

get_selector_for_input(description) ==
    LET d == lower(description) IN lookup(InputTable, d, 1, input_fallback(d))

get_selector_for_element(description) ==
    LET d == lower(description) IN lookup(ElementTable, d, 1, element_fallback(d))

Pieces ==
    {InputTable[k].key[1] : k \in DOMAIN InputTable}
        \cup {ElementTable[k].key[1] : k \in DOMAIN ElementTable}
        \cup {"Username", "Login Button", "search", " ", "x"}

Descriptions == SeqsUpTo(Pieces, MaxWords)

InitResolve ==
    /\ pc = "resolve"
    /\ agent = "stub"
    /\ environ = EmptyDict
    /\ response = NoResponse
    /\ args \in {[description |-> d, resolver |-> r] :
                    d \in Descriptions, r \in {"input", "element"}}
    /\ earlier = <<>>
    /\ setup = "done"
    /\ page = InstalledPage
    /\ plan = None
    /\ actions = <<>>
    /\ cursor = 1
    /\ log = <<>>
    /\ calls = <<>>
    /\ executed = <<>>
    /\ faults = {}
    /\ result = NoResult
    /\ raised = FALSE

(* one call of _get_selector_for_input or _get_selector_for_element *)
Resolve ==
    /\ pc = "resolve"
    /\ result' = [selector |-> IF args.resolver = "input"
                               THEN get_selector_for_input(args.description)
                               ELSE get_selector_for_element(args.description)]
    /\ pc' = "resolved"
    /\ UNCHANGED <<setup, page, earlier, args, response, agent, environ, plan, actions,
                   cursor, log, calls, executed, faults, raised>>

NextResolve == Resolve

SpecResolve == InitResolve /\ [][NextResolve]_vars

TableOf(r) == IF r = "input" THEN InputTable ELSE ElementTable

(* the entries of the resolver's table whose key the lower-cased description
   contains *)
KeysContained ==
    {k \in DOMAIN TableOf(args.resolver) :
        Contains(lower(args.description), TableOf(args.resolver)[k].key)}

Earliest(S) == CHOOSE k \in S : \A m \in S : k <= m

AttributeFallback(d) ==
    <<"input[placeholder*='">> \o d \o <<"'], input[name*='">> \o d
        \o <<"'], input[aria-label*='">> \o d \o <<"']">>

(* C30 (as claimed): the resolver returns the selectors of the first table
   key, in table order, that the lower-cased description contains, also when
   it contains several keys; when it contains none, the generic fallback of
   attribute-contains matches on placeholder, name and aria-label *)
C30_ResolverAsClaimed ==
    pc = "resolved" =>
        IF KeysContained # {}
        THEN result.selector = TableOf(args.resolver)[Earliest(KeysContained)].selector
        ELSE result.selector = AttributeFallback(lower(args.description))

(* C30 (amended): the first contained key in table order wins for both
   resolvers; with no key contained, _get_selector_for_input returns the
   placeholder / name / aria-label matches on the lower-cased description,
   and _get_selector_for_element returns a text match on it followed by
   aria-label and name matches, with no placeholder match *)
C30_ResolverFirstKey ==
    pc = "resolved" =>
        LET d == lower(args.description) IN
        IF KeysContained # {}
        THEN result.selector = TableOf(args.resolver)[Earliest(KeysContained)].selector
        ELSE IF args.resolver = "input"
        THEN result.selector = AttributeFallback(d)
        ELSE /\ result.selector[1] = "text="
             /\ SubSeq(result.selector, 2, 1 + Len(d)) = d
             /\ result.selector[2 + Len(d)] = ", [aria-label*='"
             /\ result.selector[3 + 2 * Len(d)] = "'], [name*='"
             /\ \A i \in DOMAIN result.selector :
                    result.selector[i] # "input[placeholder*='"

(* a description with two keys, the later one of the table written first *)
C30_Witness ==
    /\ pc = "resolved"
    /\ args = [description |-> <<"password", "Username">>, resolver |-> "input"]
    /\ result.selector = InputTable[2].selector

(* no key is contained: the element resolver's fallback *)
C30_WitnessFallback ==
    /\ pc = "resolved"
    /\ args = [description |-> <<"search", "x">>, resolver |-> "element"]
    /\ result.selector = <<"text=", "search", "x", ", [aria-label*='", "search", "x",
                           "'], [name*='", "search", "x", "']">>

----------------------------------------------------------------------------
(* The tasks of a Browser.  __init__ (browser.py:35) hands
   _setup_popup_handling to asyncio.create_task and returns without awaiting
   it; interact runs in the caller's task.  Tasks are cooperative: one runs
   until it awaits a driver call, and a task made ready earlier runs
   earlier. *)

(* an action has been handed to execute_action and has not returned *)
InFlight == pc = "loop" /\ cursor <= Len(actions) /\ page.begun = cursor

(* a scheduler that lets a ready task wait for as long as it likes *)
main_may_run_unordered == TRUE

(* browser.py:35: the setup task is ready from the constructor on, so it
   has run up to its first await by the time the caller's task comes back
   from its own first await, which in interact is page.content()
   (browser.py:111) *)
main_may_run == setup # "scheduled" \/ pc = "start"

(* browser.py:45-51, up to the await: both listeners are registered and
   page.route is called *)
SetupRegister ==
    /\ setup = "scheduled"
    /\ setup' = "routing"
    /\ page' = [page EXCEPT !.popup = @ + 1, !.dialog = @ + 1,
                            !.busy = @ \cup IF InFlight THEN {"route"} ELSE {}]
    /\ UNCHANGED <<pc, agent, environ, plan, actions, cursor, log, calls,
                   executed, faults, result, raised, response, args, earlier>>

(* browser.py:51: page.route returns, or raises and ends the task *)
SetupRouted ==
    /\ setup = "routing"
    /\ \E out \in {"ok", "fault"} :
        /\ setup' = IF out = "ok" THEN "done" ELSE "failed"
        /\ page' = [page EXCEPT !.route = IF out = "ok" THEN @ + 1 ELSE @]
    /\ UNCHANGED <<pc, agent, environ, plan, actions, cursor, log, calls,
                   executed, faults, result, raised, response, args, earlier>>

(* browser.py:133: the loop calls execute_action for the action at cursor *)
ActionBegin ==
    /\ pc = "loop"
    /\ cursor <= Len(actions)
    /\ page.begun < cursor
    /\ main_may_run
    /\ page' = [page EXCEPT !.begun = cursor, !.reaction = "none"]
    /\ UNCHANGED <<pc, agent, environ, plan, actions, cursor, log, calls,
                   executed, faults, result, raised, response, args, earlier,
                   setup>>

(* browser.py:45: a window opens while an action runs; the listener closes
   the new window *)
PopupOpened ==
    /\ InFlight /\ page.popup > 0 /\ page.reaction = "none"
    /\ page' = [page EXCEPT !.reaction = "popup.close"]
    /\ UNCHANGED <<pc, agent, environ, plan, actions, cursor, log, calls,
                   executed, faults, result, raised, response, args, earlier,
                   setup>>

(* browser.py:48: a dialog opens while an action runs; the listener
   dismisses the dialog *)
DialogOpened ==
    /\ InFlight /\ page.dialog > 0 /\ page.reaction = "none"
    /\ page' = [page EXCEPT !.reaction = "dialog.dismiss"]
    /\ UNCHANGED <<pc, agent, environ, plan, actions, cursor, log, calls,
                   executed, faults, result, raised, response, args, earlier,
                   setup>>

(* browser.py:53-82: the page makes a request while an action runs; the
   route handler decides on the route *)
RequestIntercepted ==
    /\ InFlight /\ page.route > 0 /\ page.reaction = "none"
    /\ page' = [page EXCEPT !.reaction = "route.decide"]
    /\ UNCHANGED <<pc, agent, environ, plan, actions, cursor, log, calls,
                   executed, faults, result, raised, response, args, earlier,
                   setup>>

(* a step of interact in the caller's task: execute_action returns only for
   an action it was called for *)
MainStep ==
    /\ main_may_run
    /\ (pc = "loop" /\ cursor <= Len(actions)) => InFlight
    /\ Next

(* the action lists the loop runs on while the tasks are watched *)
TaskActions ==
    {a \in LoopActions : Has(a, "action") /\ a.action \in {"click", "wait"}}

InitTasks ==
    /\ agent = "stub"
    /\ environ = EmptyDict
    /\ plan = None
    /\ cursor = 1
    /\ log = <<>>
    /\ calls = <<>>
    /\ executed = <<>>
    /\ faults = {}
    /\ result = NoResult
    /\ raised = FALSE
    /\ response = NoResponse
    /\ args = NoArgs
    /\ earlier = <<>>
    /\ \/ /\ pc = "start"
          /\ actions = <<>>
          /\ setup = "scheduled"
          /\ page = NewPage
       \/ /\ pc = "loop"
          /\ actions \in SeqsUpTo(TaskActions, MaxSteps)
          /\ setup = "routing"
          /\ page = [NewPage EXCEPT !.popup = 1, !.dialog = 1]

NextTasks ==
    \/ MainStep
    \/ ActionBegin
    \/ SetupRegister
    \/ SetupRouted
    \/ PopupOpened
    \/ DialogOpened
    \/ RequestIntercepted

SpecTasks == InitTasks /\ [][NextTasks]_vars

Installed == page.popup = 1 /\ page.dialog = 1 /\ page.route = 1

(* C31: the popup handler, the dialog handler and the network-blocking
   route are installed exactly once, at the set-up of the Browser, and are
   in place before the first driver call of an interact invocation; no step
   of the loop installs them again *)
C31_InstalledBeforeFirstCall ==
    [][/\ (pc = "start" /\ pc' # "start") => Installed
       /\ page'.popup <= 1 /\ page'.dialog <= 1 /\ page'.route <= 1
       /\ pc' # pc =>
            /\ page'.popup = page.popup
            /\ page'.dialog = page.dialog
            /\ page'.route = page.route]_vars

(* what holds: each is installed at most once and by the setup task only,
   and interact never waits for that task *)
C31_InstalledAtMostOnce ==
    /\ page.popup <= 1 /\ page.dialog <= 1 /\ page.route <= 1
    /\ setup = "scheduled" => page.popup = 0 /\ page.dialog = 0 /\ page.route = 0
    /\ setup = "routing" => page.popup = 1 /\ page.dialog = 1 /\ page.route = 0
    /\ setup = "done" => Installed
    /\ setup = "failed" => page.route = 0

(* interact has returned and the route was never installed *)
C31_ReturnedWithoutRoute ==
    pc = "done" /\ log # <<>> /\ page.route = 0 /\ setup \in {"routing", "failed"}

(* C32: within one interact invocation at most one action is in flight:
   execute_action is called for action i+1 only after action i has returned
   its result, and no other task of the Browser issues an operation on the
   page while an action is executing (the handlers act on the new window,
   on the dialog and on the route) *)
C32_OneActionInFlight ==
    /\ page.busy = {}
    /\ pc = "loop" => page.begun \in {cursor - 1, cursor}
    /\ page.begun > 0 => Len(executed) >= page.begun - 1
    /\ InFlight =>
        /\ Len(executed) = cursor - 1
        /\ \A k \in DOMAIN executed : executed[k].success
        /\ setup # "scheduled"

(* the second action is in flight after the first one returned, and the
   dialog listener acts meanwhile *)
C32_Witness ==
    /\ InFlight
    /\ cursor = 2
    /\ Len(executed) = 1
    /\ page.reaction = "dialog.dismiss"
    /\ setup = "routing"

----------------------------------------------------------------------------
(* Termination.  Every page-driver call returns or times out, so the task
   running interact is resumed after each await: a step that can be taken is
   taken. *)
InitLoopFair ==
    /\ agent = "stub"
    /\ environ = EmptyDict
    /\ plan = None
    /\ cursor = 1
    /\ log = <<>>
    /\ calls = <<>>
    /\ executed = <<>>
    /\ faults = {}
    /\ result = NoResult
    /\ raised = FALSE
    /\ response = NoResponse
    /\ args = NoArgs
    /\ earlier = <<>>
    /\ setup = "done"
    /\ page = InstalledPage
    /\ \/ pc = "start" /\ actions = <<>>
       \/ pc = "loop" /\ actions \in SeqsUpTo(LoopActions, MaxSteps)

SpecLoopFair == InitLoopFair /\ [][Next]_vars /\ WF_vars(Next)

(* no action is executed twice and no candidate selector of the action being
   executed is attempted twice *)
NoRetry ==
    /\ \A i, j \in EventsOf(log, "execute") : i # j => log[i].idx # log[j].idx
    /\ \A i \in EventsOf(log, "execute") : log[i].idx \in DOMAIN actions
    /\ Len(executed) <= Len(actions)
    /\ \A i, j \in DOMAIN calls :
        i # j /\ IsWait(calls[i]) /\ IsWait(calls[j]) => calls[i].arg # calls[j].arg

(* C33: interact terminates for every finite plan: when every driver call
   returns or times out, the loop ends (all actions done, or one failed)
   after at most one execution of each action and at most one attempt of
   each candidate selector of an action; no step and no candidate is
   retried *)
C33_Terminates == <>(pc = "done") /\ []NoRetry

(* a run that ended on its second action, whose candidate timed out *)
C33_Witness ==
    /\ pc = "done"
    /\ Len(executed) = 2
    /\ ~result.success
    /\ calls # <<>> /\ Last(calls).out = "timeout"
    /\ Cardinality(EventsOf(log, "execute")) = 2

----------------------------------------------------------------------------
(* What parse_plan hands to the executor *)

(* the action has a kind execute_action dispatches on, and the fields the
   branch of that kind reads (executor.py:31-136) *)
Dispatched(a) ==
    /\ Has(a, "action") /\ a.action \in KnownKinds
    /\ a.action \in {"navigation", "type", "wait", "press"} => Has(a, "value")
    /\ a.action \in {"click", "type"} => Has(a, "selectors")

(* C34: every action record parse_plan emits has a kind and a field layout
   that execute_action dispatches on, so no plan step reaches the executor
   in a shape its dispatch does not handle *)
C34_EmittedActionsDispatched ==
    /\ \A k \in DOMAIN actions : Dispatched(actions[k])
    /\ \A k \in DOMAIN executed :
        Has(executed[k], "error_type") => executed[k].error_type # "UnknownAction"

(* the steps parse_plan reads the plan for *)
StepsOf(p) == IF Has(p, "steps") THEN p.steps ELSE <<>>

EmitCount(step) ==
    IF step.action_type \in {"navigation", "input", "wait", "verify"} THEN 1
    ELSE IF step.action_type = "click" THEN Len(step.details.selectors)
    ELSE 0

EmittedKind(step) ==
    IF step.action_type = "navigation" THEN "goto"
    ELSE IF step.action_type = "input" THEN "fill"
    ELSE step.action_type

(* the number of actions emitted for the first k steps *)
RECURSIVE EmittedBefore(_, _)
EmittedBefore(steps, k) ==
    IF k = 0 THEN 0 ELSE EmittedBefore(steps, k - 1) + EmitCount(steps[k])

(* parse_plan returned its list to interact *)
Parsed == pc = "loop" \/ (pc = "done" /\ "parse" \notin faults /\ log # <<>>)
             \/ (pc = "done" /\ ~raised /\ result = CommandExecuted)

(* C35: parse_plan keeps the order of the steps and emits, for each step,
   exactly one action when its action_type is navigation, input, wait or
   verify, one click action per selector, in order, when it is click, and
   nothing for any other action_type; a plan whose steps are all of other
   types gives the empty list *)
C35_OneActionPerStep ==
    Parsed =>
        LET steps == StepsOf(plan) IN
        /\ Len(actions) = EmittedBefore(steps, Len(steps))
        /\ \A k \in DOMAIN steps :
            \A m \in 1..EmitCount(steps[k]) :
                LET a == actions[EmittedBefore(steps, k - 1) + m] IN
                /\ a.action = EmittedKind(steps[k])
                /\ steps[k].action_type = "click" =>
                     a.selector = steps[k].details.selectors[m]
        /\ (\A k \in DOMAIN steps :
               steps[k].action_type \notin
                   {"navigation", "input", "wait", "verify", "click"})
             => actions = <<>>

(* a click step with two selectors, then a navigation step: three actions *)
C35_Witness ==
    /\ pc = "loop"
    /\ Len(StepsOf(plan)) = 2
    /\ plan.steps[1].action_type = "click"
    /\ Len(plan.steps[1].details.selectors) = 2
    /\ plan.steps[2].action_type = "navigation"
    /\ Len(actions) = 3
    /\ actions[2] = [action |-> "click", selector |-> plan.steps[1].details.selectors[2]]
    /\ actions[3].action = "goto"

(* only steps of other types: nothing to execute *)
C35_WitnessEmpty ==
    /\ pc = "done"
    /\ ~raised /\ result = CommandExecuted
    /\ StepsOf(plan) # <<>>
    /\ \A k \in DOMAIN plan.steps : plan.steps[k].action_type = "scroll"
    /\ actions = <<>>

(* a wait action with selectors, whatever its value *)
IsWaitOnSelectors ==
    /\ Has(actions[1], "action") /\ actions[1].action = "wait"
    /\ Has(actions[1], "selectors") /\ actions[1].selectors # <<>>

IsActionError(r) ==
    ~r.success /\ Has(r, "error_type") /\ r.error_type = "ActionError"

(* C36: in a wait action with selectors only a driver timeout on a selector
   moves on to the next selector; any other fault on a selector, or a value
   that is not an integer, ends the whole action at once with success=false
   and the ActionError kind, and the remaining selectors are not tried *)
C36_OnlyTimeoutMovesOn ==
    pc = "returned" /\ IsWaitOnSelectors =>
        LET a == actions[1] IN
        /\ ~raised
        /\ Len(calls) <= Len(a.selectors)
        /\ \A k \in DOMAIN calls :
            /\ IsWait(calls[k]) /\ calls[k].arg = <<a.selectors[k]>>
            /\ k < Len(calls) => calls[k].out = "timeout"
            /\ calls[k].out = "fault" => k = Len(calls) /\ IsActionError(result)
        /\ Has(a, "value") /\ ~IsNumeral(a.value) =>
            calls = <<>> /\ IsActionError(result)
        /\ IsActionError(result) =>
            \/ calls # <<>> /\ Last(calls).out = "fault"
            \/ calls = <<>> /\ (~Has(a, "value") \/ ~IsNumeral(a.value))

(* the driver faults on the first of two selectors: the second is not tried *)
C36_Witness ==
    /\ pc = "returned"
    /\ IsWaitOnSelectors
    /\ Len(actions[1].selectors) = 2
    /\ Len(calls) = 1
    /\ calls[1].out = "fault"
    /\ IsActionError(result)

(* the value "1.5": int() raises before any selector is waited on *)
C36_WitnessValue ==
    /\ pc = "returned"
    /\ IsWaitOnSelectors
    /\ Has(actions[1], "value") /\ actions[1].value = <<"1.5">>
    /\ calls = <<>>
    /\ IsActionError(result)

(* ------------------------------------------------------------------ *)
(* Browser._handle_route (browser.py:53-82): the decision taken for    *)
(* one intercepted request.  A URL is a sequence of pieces, as a       *)
(* description is.                                                     *)
(* ------------------------------------------------------------------ *)

(* browser.py:59-65 *)
blocked_domains ==
    <<"google-analytics.com", "doubleclick.net", "facebook.com", "adnxs.com">>

(* browser.py:68-73 *)
blocked_resources == <<"image", "media", "font", "other">>

(* the resource types the driver reports for a request *)
ResourceTypes ==
    {"document", "stylesheet", "image", "media", "font", "script",
     "texttrack", "xhr", "fetch", "eventsource", "websocket", "manifest",
     "other"}

(* the handler without `.lower()` at line 75 *)
handle_route_no_lower(request, out) ==
    LET url == request.url
        done(op) == IF out = "fault"
                    THEN Raise(PlaywrightError, <<Call(op, <<>>, out)>>)
                    ELSE Return(None, <<Call(op, <<>>, out)>>)
    IN  IF \E d \in DOMAIN blocked_domains :
               Contains(url, <<blocked_domains[d]>>)
        THEN done("route.abort")
        ELSE IF \E r \in DOMAIN blocked_resources :
                    request.resource_type = blocked_resources[r]
        THEN done("route.abort")
        ELSE done("route.continue_")

(* browser.py:53-82.  out is the outcome of the one awaited driver call; a
   fault of it is raised out of the handler, which has no except clause. *)
handle_route(request, out) ==
    LET url == lower(request.url)
        done(op) == IF out = "fault"
                    THEN Raise(PlaywrightError, <<Call(op, <<>>, out)>>)
                    ELSE Return(None, <<Call(op, <<>>, out)>>)
    IN  IF \E d \in DOMAIN blocked_domains :
               Contains(url, <<blocked_domains[d]>>)
        THEN done("route.abort")
        ELSE IF \E r \in DOMAIN blocked_resources :
                    request.resource_type = blocked_resources[r]
        THEN done("route.abort")
        ELSE done("route.continue_")

UrlPieces ==
    {blocked_domains[d] : d \in DOMAIN blocked_domains}
        \cup {"https://", "HTTPS://", "Facebook.com", "example.com", "/x"}

Urls == SeqsUpTo(UrlPieces, MaxWords)

InitRoute ==
    /\ pc = "route"
    /\ agent = "stub"
    /\ environ = EmptyDict
    /\ response = NoResponse
    /\ args \in {[url |-> u, resource_type |-> t] :
                    u \in Urls, t \in ResourceTypes}
    /\ earlier = <<>>
    /\ setup = "done"
    /\ page = InstalledPage
    /\ plan = None
    /\ actions = <<>>
    /\ cursor = 1
    /\ log = <<>>
    /\ calls = <<>>
    /\ executed = <<>>
    /\ faults = {}
    /\ result = NoResult
    /\ raised = FALSE

(* one call of _handle_route by the driver for an intercepted request *)
HandleRoute ==
    /\ pc = "route"
    /\ \E out \in {"ok", "fault"} :
        LET c == handle_route(args, out) IN
        /\ calls' = c.calls
        /\ raised' = c.raised
    /\ pc' = "routed"
    /\ UNCHANGED <<setup, page, earlier, args, response, agent, environ, plan,
                   actions, cursor, log, executed, faults, result>>

NextRoute == HandleRoute

SpecRoute == InitRoute /\ [][NextRoute]_vars

(* what the handler is said to block: some piece of the URL is, letter case
   aside, a blocked domain, or the resource type is one of the four *)
Blocked(request) ==
    \/ \E i \in DOMAIN request.url :
           lower_piece(request.url[i])
               \in {"google-analytics.com", "doubleclick.net",
                    "facebook.com", "adnxs.com"}
    \/ request.resource_type \in {"image", "media", "font", "other"}

(* C37: _handle_route gives every intercepted request exactly one decision,
   abort or continue, never both and never none: it aborts iff the
   lower-cased URL contains a blocked domain or the resource type is in the
   blocked list (image, media, font, other), and continues otherwise *)
C37_OneDecisionPerRequest ==
    pc = "routed" =>
        /\ Len(calls) = 1
        /\ calls[1].op \in {"route.abort", "route.continue_"}
        /\ calls[1].op = "route.abort" <=> Blocked(args)
        /\ raised <=> calls[1].out = "fault"

(* a script request to a blocked domain written in capitals is aborted *)
C37_Witness ==
    /\ pc = "routed"
    /\ args.url = <<"HTTPS://", "Facebook.com">>
    /\ args.resource_type = "script"
    /\ calls = <<Call("route.abort", <<>>, "ok")>>

(* a document request to another domain is continued *)
C37_WitnessContinue ==
    /\ pc = "routed"
    /\ args.url = <<"https://", "example.com">>
    /\ args.resource_type = "document"
    /\ calls = <<Call("route.continue_", <<>>, "ok")>>

====
